---------------------------- MODULE Spec2Model ----------------------------
(***************************************************************************)
(* Entity extraction and normalization engine of the wildlife-incident     *)
(* tracker: AnimalDetector.detect (backend/verify_animal_detection.py),    *)
(* ExcelParser._detect_animals (backend/ai/excel_agent.py) and the         *)
(* compound-name filters of backend/ai/filter_utils.py.                    *)
(*                                                                         *)
(* A Python str is modelled as a sequence of one-character strings, so     *)
(* that substring tests, regular expressions, lower(), title(), strip()    *)
(* and split() are computed character by character as the interpreter      *)
(* computes them.                                                          *)
(***************************************************************************)
EXTENDS Integers, Sequences, FiniteSets, TLC

(***************************************************************************)
(* Characters                                                              *)
(***************************************************************************)
LowerLetters ==
  <<"a","b","c","d","e","f","g","h","i","j","k","l","m",
    "n","o","p","q","r","s","t","u","v","w","x","y","z">>

UpperLetters ==
  <<"A","B","C","D","E","F","G","H","I","J","K","L","M",
    "N","O","P","Q","R","S","T","U","V","W","X","Y","Z">>

DigitChars == <<"0","1","2","3","4","5","6","7","8","9">>

\* The characters of the model in code-point order (the order sorted() uses).
CharOrder ==
  <<"\n", " ", "!", "(", ")", ",", "-", ".">> \o DigitChars \o <<";", "?">>
    \o UpperLetters \o <<"_">> \o LowerLetters

Chars == {CharOrder[i] : i \in 1..Len(CharOrder)}

LowerSet == {LowerLetters[i] : i \in 1..26}
UpperSet == {UpperLetters[i] : i \in 1..26}
DigitSet == {DigitChars[i] : i \in 1..10}

\* ord(c)
Ord == [c \in Chars |-> CHOOSE i \in 1..Len(CharOrder) : CharOrder[i] = c]

\* str.lower() and str.upper() on one character
LowerChar ==
  [c \in Chars |-> IF c \in UpperSet
                     THEN LowerLetters[CHOOSE i \in 1..26 : UpperLetters[i] = c]
                     ELSE c]

UpperChar ==
  [c \in Chars |-> IF c \in LowerSet
                     THEN UpperLetters[CHOOSE i \in 1..26 : LowerLetters[i] = c]
                     ELSE c]

\* a cased character, as str.title() and str.capitalize() see it
IsCased(c) == c \in LowerSet \/ c \in UpperSet

\* the regular-expression class \w
IsWordChar(c) == c \in LowerSet \/ c \in UpperSet \/ c \in DigitSet \/ c = "_"

\* the regular-expression class \s, and the characters str.strip()/split() drop
IsSpace(c) == c = " " \/ c = "\n"

(***************************************************************************)
(* Python str operations                                                   *)
(***************************************************************************)
\* s.lower()
Lower(s) == [i \in 1..Len(s) |-> LowerChar[s[i]]]

\* Title without the upper-casing: every cased character lower-cased
TitleAllLower(s) == [i \in 1..Len(s) |-> LowerChar[s[i]]]

\* s.title(): a cased character is upper-cased when the character before it
\* is not cased, lower-cased otherwise
Title(s) ==
  [i \in 1..Len(s) |->
     IF i = 1 \/ ~IsCased(s[i-1]) THEN UpperChar[s[i]] ELSE LowerChar[s[i]]]

\* s.capitalize(): first character upper-cased, the rest lower-cased
Capitalize(s) ==
  [i \in 1..Len(s) |-> IF i = 1 THEN UpperChar[s[i]] ELSE LowerChar[s[i]]]

\* t occurs in s at index i
OccursAt(t, s, i) ==
  /\ i >= 1
  /\ i + Len(t) - 1 <= Len(s)
  /\ \A j \in 1..Len(t) : s[i + j - 1] = t[j]

\* t in s
Contains(s, t) == \E i \in 1..(Len(s) - Len(t) + 1) : OccursAt(t, s, i)

\* s.find(t) + 1, or 0 when t does not occur in s
Find(s, t) ==
  IF Contains(s, t)
    THEN CHOOSE i \in 1..(Len(s) - Len(t) + 1) :
           /\ OccursAt(t, s, i)
           /\ \A k \in 1..(i - 1) : ~OccursAt(t, s, k)
    ELSE 0

\* s.replace('\n', ' ')
ReplaceNewlines(s) == [i \in 1..Len(s) |-> IF s[i] = "\n" THEN " " ELSE s[i]]

\* s.strip()
Strip(s) ==
  IF \A i \in 1..Len(s) : IsSpace(s[i])
    THEN << >>
    ELSE LET a == CHOOSE i \in 1..Len(s) :
                    ~IsSpace(s[i]) /\ \A k \in 1..(i - 1) : IsSpace(s[k])
             b == CHOOSE i \in 1..Len(s) :
                    ~IsSpace(s[i]) /\ \A k \in (i + 1)..Len(s) : IsSpace(s[k])
         IN SubSeq(s, a, b)

\* a < b in the order sorted() puts strings in
RECURSIVE StrLess(_, _)
StrLess(a, b) ==
  IF a = << >> THEN b # << >>
  ELSE IF b = << >> THEN FALSE
  ELSE IF a[1] # b[1] THEN Ord[a[1]] < Ord[b[1]]
  ELSE StrLess(Tail(a), Tail(b))

\* the list without its element at index i
RemoveAt(list, i) == SubSeq(list, 1, i - 1) \o SubSeq(list, i + 1, Len(list))

\* the index of a least element of a non-empty list of strings
LeastIndex(list) ==
  CHOOSE i \in 1..Len(list) : \A j \in 1..Len(list) : ~StrLess(list[j], list[i])

\* the list as it is
Unsorted(list) == list

RECURSIVE Sorted(_)
\* the element at index m, then the other elements sorted
SortedFrom(list, m) == <<list[m]>> \o Sorted(RemoveAt(list, m))

\* sorted(list) for a list of strings
Sorted(list) ==
  IF list = << >> THEN << >> ELSE SortedFrom(list, LeastIndex(list))

\* list(S) for a set S: its elements once each, in the iteration order of
\* the set
RECURSIVE ListOf(_)
ListOf(S) ==
  IF S = {} THEN << >>
  ELSE LET x == CHOOSE y \in S : TRUE
       IN <<x>> \o ListOf(S \ {x})

\* sep.join(parts)
RECURSIVE Join(_, _)
Join(sep, parts) ==
  IF parts = << >> THEN << >>
  ELSE IF Len(parts) = 1 THEN parts[1]
  ELSE parts[1] \o sep \o Join(sep, Tail(parts))

\* the elements of a list
Elems(seq) == {seq[i] : i \in 1..Len(seq)}

(***************************************************************************)
(* Lexicons of AnimalDetector.__init__ (verify_animal_detection.py).       *)
(* The lists keep the order of the source: the regular-expression          *)
(* alternations built from them try the terms in list order.               *)
(***************************************************************************)
\* self.ANIMALS
ANIMALS ==
  <<
    <<"e","l","e","p","h","a","n","t">>,  \* elephant
    <<"e","l","e","p","h","a","n","t","s">>,  \* elephants
    <<"t","u","s","k","e","r">>,  \* tusker
    <<"t","u","s","k","e","r","s">>,  \* tuskers
    <<"t","i","g","e","r">>,  \* tiger
    <<"t","i","g","e","r","s">>,  \* tigers
    <<"l","e","o","p","a","r","d">>,  \* leopard
    <<"l","e","o","p","a","r","d","s">>,  \* leopards
    <<"p","a","n","t","h","e","r">>,  \* panther
    <<"r","h","i","n","o">>,  \* rhino
    <<"r","h","i","n","o","c","e","r","o","s">>,  \* rhinoceros
    <<"r","h","i","n","o","s">>,  \* rhinos
    <<"p","a","n","g","o","l","i","n">>,  \* pangolin
    <<"p","a","n","g","o","l","i","n","s">>,  \* pangolins
    <<"s","c","a","l","y"," ","a","n","t","e","a","t","e","r">>,  \* scaly anteater
    <<"b","e","a","r">>,  \* bear
    <<"b","e","a","r","s">>,  \* bears
    <<"s","l","o","t","h"," ","b","e","a","r">>,  \* sloth bear
    <<"s","u","n"," ","b","e","a","r">>,  \* sun bear
    <<"p","o","l","a","r"," ","b","e","a","r">>,  \* polar bear
    <<"d","e","e","r">>,  \* deer
    <<"d","e","e","r","s">>,  \* deers
    <<"s","a","m","b","a","r">>,  \* sambar
    <<"c","h","i","t","a","l">>,  \* chital
    <<"s","p","o","t","t","e","d"," ","d","e","e","r">>,  \* spotted deer
    <<"m","u","n","t","j","a","c">>,  \* muntjac
    <<"a","x","i","s"," ","d","e","e","r">>,  \* axis deer
    <<"o","t","t","e","r">>,  \* otter
    <<"o","t","t","e","r","s">>,  \* otters
    <<"p","r","i","m","a","t","e">>,  \* primate
    <<"p","r","i","m","a","t","e","s">>,  \* primates
    <<"m","o","n","k","e","y">>,  \* monkey
    <<"m","o","n","k","e","y","s">>,  \* monkeys
    <<"m","a","c","a","q","u","e">>,  \* macaque
    <<"g","i","b","b","o","n">>,  \* gibbon
    <<"l","a","n","g","u","r">>,  \* langur
    <<"s","e","a","l">>,  \* seal
    <<"s","e","a","l","s">>,  \* seals
    <<"w","a","l","r","u","s">>,  \* walrus
    <<"w","a","l","r","u","s","e","s">>,  \* walruses
    <<"n","a","r","w","h","a","l">>,  \* narwhal
    <<"w","h","a","l","e">>,  \* whale
    <<"w","h","a","l","e","s">>,  \* whales
    <<"d","o","l","p","h","i","n">>,  \* dolphin
    <<"p","o","r","p","o","i","s","e">>,  \* porpoise
    <<"c","r","o","c","o","d","i","l","e">>,  \* crocodile
    <<"a","l","l","i","g","a","t","o","r">>,  \* alligator
    <<"s","n","a","k","e">>,  \* snake
    <<"s","n","a","k","e","s">>,  \* snakes
    <<"c","o","b","r","a">>,  \* cobra
    <<"c","o","b","r","a","s">>,  \* cobras
    <<"p","y","t","h","o","n">>,  \* python
    <<"p","y","t","h","o","n","s">>,  \* pythons
    <<"v","i","p","e","r">>,  \* viper
    <<"v","i","p","e","r","s">>,  \* vipers
    <<"t","u","r","t","l","e">>,  \* turtle
    <<"t","u","r","t","l","e","s">>,  \* turtles
    <<"t","o","r","t","o","i","s","e">>,  \* tortoise
    <<"t","o","r","t","o","i","s","e","s">>,  \* tortoises
    <<"s","e","a"," ","t","u","r","t","l","e">>,  \* sea turtle
    <<"s","e","a"," ","t","u","r","t","l","e","s">>,  \* sea turtles
    <<"s","h","a","r","k">>,  \* shark
    <<"s","h","a","r","k","s">>,  \* sharks
    <<"m","a","n","t","a"," ","r","a","y">>,  \* manta ray
    <<"m","a","n","t","a"," ","r","a","y","s">>,  \* manta rays
    <<"r","a","y">>,  \* ray
    <<"r","a","y","s">>,  \* rays
    <<"s","k","a","t","e">>,  \* skate
    <<"s","k","a","t","e","s">>,  \* skates
    <<"s","e","a","h","o","r","s","e">>,  \* seahorse
    <<"s","e","a"," ","c","u","c","u","m","b","e","r">>,  \* sea cucumber
    <<"s","e","a"," ","c","u","c","u","m","b","e","r","s">>,  \* sea cucumbers
    <<"s","c","o","r","p","i","o","n">>,  \* scorpion
    <<"s","c","o","r","p","i","o","n","s">>,  \* scorpions
    <<"b","u","t","t","e","r","f","l","y">>,  \* butterfly
    <<"b","u","t","t","e","r","f","l","i","e","s">>,  \* butterflies
    <<"b","e","e","t","l","e">>,  \* beetle
    <<"b","e","e","t","l","e","s">>,  \* beetles
    <<"l","i","v","e"," ","a","n","i","m","a","l">>,  \* live animal
    <<"l","i","v","e","_","a","n","i","m","a","l">>,  \* live_animal
    <<"c","a","p","t","i","v","e">>,  \* captive
    <<"a","l","i","v","e">>,  \* alive
    <<"j","u","v","e","n","i","l","e">>,  \* juvenile
    <<"h","a","t","c","h","l","i","n","g">>,  \* hatchling
    <<"c","h","i","c","k">>,  \* chick
    <<"c","h","i","c","k","s">>,  \* chicks
    <<"c","a","r","c","a","s","s","e","s">>,  \* carcasses
    <<"d","e","a","d"," ","a","n","i","m","a","l">>,  \* dead animal
    <<"d","e","a","d","_","a","n","i","m","a","l">>  \* dead_animal
  >>

\* self.BIRDS
BIRDS ==
  <<
    <<"e","a","g","l","e">>,  \* eagle
    <<"e","a","g","l","e","s">>,  \* eagles
    <<"h","a","w","k">>,  \* hawk
    <<"h","a","w","k","s">>,  \* hawks
    <<"v","u","l","t","u","r","e">>,  \* vulture
    <<"v","u","l","t","u","r","e","s">>,  \* vultures
    <<"o","s","p","r","e","y">>,  \* osprey
    <<"p","a","r","r","o","t">>,  \* parrot
    <<"p","a","r","r","o","t","s">>,  \* parrots
    <<"c","o","c","k","a","t","o","o">>,  \* cockatoo
    <<"c","o","c","k","a","t","o","o","s">>,  \* cockatoos
    <<"m","a","c","a","w">>,  \* macaw
    <<"m","a","c","a","w","s">>,  \* macaws
    <<"p","e","a","c","o","c","k">>,  \* peacock
    <<"p","e","a","f","o","w","l">>,  \* peafowl
    <<"h","o","r","n","b","i","l","l">>,  \* hornbill
    <<"h","o","r","n","b","i","l","l","s">>,  \* hornbills
    <<"m","y","n","a">>,  \* myna
    <<"m","y","n","a","s">>,  \* mynas
    <<"h","i","l","l"," ","m","y","n","a">>,  \* hill myna
    <<"h","i","l","l"," ","m","y","n","a","s">>,  \* hill mynas
    <<"m","i","g","r","a","t","o","r","y"," ","b","i","r","d">>,  \* migratory bird
    <<"m","i","g","r","a","t","o","r","y"," ","b","i","r","d","s">>,  \* migratory birds
    <<"w","a","t","e","r","f","o","w","l">>,  \* waterfowl
    <<"d","u","c","k">>,  \* duck
    <<"d","u","c","k","s">>,  \* ducks
    <<"g","o","o","s","e">>,  \* goose
    <<"g","e","e","s","e">>,  \* geese
    <<"l","i","v","e"," ","b","i","r","d">>,  \* live bird
    <<"l","i","v","e","_","b","i","r","d">>,  \* live_bird
    <<"b","i","r","d"," ","e","g","g","s">>,  \* bird eggs
    <<"e","g","g">>,  \* egg
    <<"e","g","g","s">>  \* eggs
  >>

\* self.PRODUCTS
PRODUCTS ==
  <<
    <<"t","u","s","k">>,  \* tusk
    <<"t","u","s","k","s">>,  \* tusks
    <<"i","v","o","r","y">>,  \* ivory
    <<"e","l","e","p","h","a","n","t"," ","t","u","s","k">>,  \* elephant tusk
    <<"e","l","e","p","h","a","n","t"," ","t","u","s","k","s">>,  \* elephant tusks
    <<"h","o","r","n">>,  \* horn
    <<"h","o","r","n","s">>,  \* horns
    <<"r","h","i","n","o"," ","h","o","r","n">>,  \* rhino horn
    <<"r","h","i","n","o"," ","h","o","r","n","s">>,  \* rhino horns
    <<"a","n","t","l","e","r">>,  \* antler
    <<"a","n","t","l","e","r","s">>,  \* antlers
    <<"s","k","i","n">>,  \* skin
    <<"s","k","i","n","s">>,  \* skins
    <<"p","e","l","t">>,  \* pelt
    <<"p","e","l","t","s">>,  \* pelts
    <<"f","u","r">>,  \* fur
    <<"f","u","r","s">>,  \* furs
    <<"h","i","d","e">>,  \* hide
    <<"h","i","d","e","s">>,  \* hides
    <<"l","e","a","t","h","e","r">>,  \* leather
    <<"m","e","a","t">>,  \* meat
    <<"b","u","s","h","m","e","a","t">>,  \* bushmeat
    <<"c","a","r","c","a","s","s">>,  \* carcass
    <<"c","a","r","c","a","s","s","e","s">>,  \* carcasses
    <<"b","o","n","e">>,  \* bone
    <<"b","o","n","e","s">>,  \* bones
    <<"s","k","e","l","e","t","o","n">>,  \* skeleton
    <<"s","k","u","l","l">>,  \* skull
    <<"t","e","e","t","h">>,  \* teeth
    <<"t","o","o","t","h">>,  \* tooth
    <<"m","o","l","a","r">>,  \* molar
    <<"c","l","a","w">>,  \* claw
    <<"c","l","a","w","s">>,  \* claws
    <<"f","e","a","t","h","e","r">>,  \* feather
    <<"f","e","a","t","h","e","r","s">>,  \* feathers
    <<"d","o","w","n">>,  \* down
    <<"s","c","a","l","e">>,  \* scale
    <<"s","c","a","l","e","s">>,  \* scales
    <<"p","a","n","g","o","l","i","n"," ","s","c","a","l","e","s">>,  \* pangolin scales
    <<"s","h","e","l","l">>,  \* shell
    <<"s","h","e","l","l","s">>,  \* shells
    <<"t","u","r","t","l","e"," ","s","h","e","l","l">>,  \* turtle shell
    <<"t","o","r","t","o","i","s","e"," ","s","h","e","l","l">>,  \* tortoise shell
    <<"g","i","l","l"," ","r","a","k","e","r">>,  \* gill raker
    <<"g","i","l","l"," ","r","a","k","e","r","s">>,  \* gill rakers
    <<"b","a","l","e","e","n">>,  \* baleen
    <<"w","h","a","l","e"," ","b","o","n","e">>,  \* whale bone
    <<"b","i","l","e">>,  \* bile
    <<"g","a","l","l","b","l","a","d","d","e","r">>,  \* gallbladder
    <<"o","r","g","a","n","s">>,  \* organs
    <<"l","i","v","e","r">>,  \* liver
    <<"h","e","a","r","t">>,  \* heart
    <<"g","e","n","i","t","a","l","s">>,  \* genitals
    <<"s","k","i","n"," ","f","r","a","g","m","e","n","t">>,  \* skin fragment
    <<"p","r","e","s","e","r","v","e","d"," ","s","k","i","n">>,  \* preserved skin
    <<"p","r","e","s","e","r","v","e","d","_","s","k","i","n">>,  \* preserved_skin
    <<"t","r","o","p","h","y">>,  \* trophy
    <<"t","a","x","i","d","e","r","m","y">>,  \* taxidermy
    <<"m","o","u","n","t","e","d"," ","h","e","a","d">>,  \* mounted head
    <<"s","h","a","r","k"," ","f","i","n">>,  \* shark fin
    <<"s","h","a","r","k"," ","f","i","n","s">>,  \* shark fins
    <<"s","h","a","r","k","_","f","i","n">>,  \* shark_fin
    <<"b","e","c","h","e","-","d","e","-","m","e","r">>,  \* beche-de-mer
    <<"b","e","c","h","e","_","d","e","_","m","e","r">>,  \* beche_de_mer
    <<"c","o","r","a","l">>,  \* coral
    <<"l","i","v","e"," ","c","o","r","a","l">>,  \* live coral
    <<"l","i","v","e"," ","s","p","e","c","i","m","e","n">>,  \* live specimen
    <<"l","i","v","e","_","s","p","e","c","i","m","e","n">>,  \* live_specimen
    <<"l","i","v","e"," ","r","e","p","t","i","l","e">>,  \* live reptile
    <<"l","i","v","e","_","r","e","p","t","i","l","e">>,  \* live_reptile
    <<"h","a","n","d","i","c","r","a","f","t">>,  \* handicraft
    <<"o","r","n","a","m","e","n","t">>,  \* ornament
    <<"j","e","w","e","l","r","y">>,  \* jewelry
    <<"c","a","r","v","e","d"," ","i","v","o","r","y">>,  \* carved ivory
    <<"c","a","r","v","e","d","_","h","o","r","n">>  \* carved_horn
  >>

\* self.CONTEXT_SIGNALS
CONTEXT_SIGNALS ==
  <<
    <<"s","e","i","z","u","r","e">>,  \* seizure
    <<"s","e","i","z","e","d">>,  \* seized
    <<"c","o","n","f","i","s","c","a","t","e","d">>,  \* confiscated
    <<"c","o","n","f","i","s","c","a","t","i","o","n">>,  \* confiscation
    <<"a","r","r","e","s","t","e","d">>,  \* arrested
    <<"a","r","r","e","s","t">>,  \* arrest
    <<"s","m","u","g","g","l","e","d">>,  \* smuggled
    <<"s","m","u","g","g","l","i","n","g">>,  \* smuggling
    <<"t","r","a","f","f","i","c","k","e","d">>,  \* trafficked
    <<"t","r","a","f","f","i","c","k","i","n","g">>,  \* trafficking
    <<"p","o","a","c","h","e","d">>,  \* poached
    <<"p","o","a","c","h","i","n","g">>,  \* poaching
    <<"k","i","l","l","e","d">>,  \* killed
    <<"d","i","e">>,  \* die
    <<"d","i","e","d">>,  \* died
    <<"d","e","a","d">>,  \* dead
    <<"d","e","a","t","h">>,  \* death
    <<"c","a","r","c","a","s","s">>,  \* carcass
    <<"r","e","m","a","i","n","s">>,  \* remains
    <<"f","o","u","n","d">>,  \* found
    <<"d","i","s","c","o","v","e","r","e","d">>,  \* discovered
    <<"c","a","r","r","y","i","n","g">>,  \* carrying
    <<"p","o","s","s","e","s","s","i","o","n">>,  \* possession
    <<"t","r","a","d","i","n","g">>,  \* trading
    <<"s","e","l","l","i","n","g">>,  \* selling
    <<"b","o","u","g","h","t">>,  \* bought
    <<"m","a","r","k","e","t">>  \* market
  >>

\* self.NORMALIZATION_MAP, as <<key, value>> pairs
NORMALIZATION_MAP ==
  <<
    <<<<"t","u","s","k","e","r">>, <<"A","s","i","a","n"," ","E","l","e","p","h","a","n","t">>>>,  \* tusker: Asian Elephant
    <<<<"t","u","s","k","e","r","s">>, <<"A","s","i","a","n"," ","E","l","e","p","h","a","n","t">>>>,  \* tuskers: Asian Elephant
    <<<<"e","l","e","p","h","a","n","t">>, <<"A","s","i","a","n"," ","E","l","e","p","h","a","n","t">>>>,  \* elephant: Asian Elephant
    <<<<"e","l","e","p","h","a","n","t","s">>, <<"A","s","i","a","n"," ","E","l","e","p","h","a","n","t">>>>,  \* elephants: Asian Elephant
    <<<<"t","i","g","e","r">>, <<"R","o","y","a","l"," ","B","e","n","g","a","l"," ","T","i","g","e","r">>>>,  \* tiger: Royal Bengal Tiger
    <<<<"t","i","g","e","r","s">>, <<"R","o","y","a","l"," ","B","e","n","g","a","l"," ","T","i","g","e","r">>>>,  \* tigers: Royal Bengal Tiger
    <<<<"l","e","o","p","a","r","d">>, <<"L","e","o","p","a","r","d">>>>,  \* leopard: Leopard
    <<<<"l","e","o","p","a","r","d","s">>, <<"L","e","o","p","a","r","d">>>>,  \* leopards: Leopard
    <<<<"p","a","n","t","h","e","r">>, <<"L","e","o","p","a","r","d">>>>,  \* panther: Leopard
    <<<<"r","h","i","n","o">>, <<"R","h","i","n","o","c","e","r","o","s">>>>,  \* rhino: Rhinoceros
    <<<<"r","h","i","n","o","c","e","r","o","s">>, <<"R","h","i","n","o","c","e","r","o","s">>>>,  \* rhinoceros: Rhinoceros
    <<<<"p","a","n","g","o","l","i","n">>, <<"P","a","n","g","o","l","i","n">>>>,  \* pangolin: Pangolin
    <<<<"p","a","n","g","o","l","i","n","s">>, <<"P","a","n","g","o","l","i","n">>>>,  \* pangolins: Pangolin
    <<<<"s","c","a","l","y"," ","a","n","t","e","a","t","e","r">>, <<"P","a","n","g","o","l","i","n">>>>,  \* scaly anteater: Pangolin
    <<<<"b","e","a","r">>, <<"B","e","a","r">>>>,  \* bear: Bear
    <<<<"s","l","o","t","h"," ","b","e","a","r">>, <<"S","l","o","t","h"," ","B","e","a","r">>>>,  \* sloth bear: Sloth Bear
    <<<<"d","e","e","r">>, <<"D","e","e","r">>>>,  \* deer: Deer
    <<<<"s","p","o","t","t","e","d"," ","d","e","e","r">>, <<"S","p","o","t","t","e","d"," ","D","e","e","r">>>>,  \* spotted deer: Spotted Deer
    <<<<"b","a","r","k","i","n","g"," ","d","e","e","r">>, <<"B","a","r","k","i","n","g"," ","D","e","e","r">>>>,  \* barking deer: Barking Deer
    <<<<"s","a","m","b","a","r">>, <<"S","a","m","b","a","r"," ","D","e","e","r">>>>,  \* sambar: Sambar Deer
    <<<<"s","n","a","k","e">>, <<"S","n","a","k","e">>>>,  \* snake: Snake
    <<<<"c","o","b","r","a">>, <<"C","o","b","r","a">>>>,  \* cobra: Cobra
    <<<<"p","y","t","h","o","n">>, <<"P","y","t","h","o","n">>>>,  \* python: Python
    <<<<"t","u","r","t","l","e">>, <<"T","u","r","t","l","e">>>>,  \* turtle: Turtle
    <<<<"t","o","r","t","o","i","s","e">>, <<"T","o","r","t","o","i","s","e">>>>,  \* tortoise: Tortoise
    <<<<"s","k","i","n">>, <<"A","n","i","m","a","l"," ","S","k","i","n">>>>,  \* skin: Animal Skin
    <<<<"s","k","i","n","s">>, <<"A","n","i","m","a","l"," ","S","k","i","n">>>>,  \* skins: Animal Skin
    <<<<"h","i","d","e">>, <<"A","n","i","m","a","l"," ","S","k","i","n">>>>,  \* hide: Animal Skin
    <<<<"i","v","o","r","y">>, <<"I","v","o","r","y">>>>,  \* ivory: Ivory
    <<<<"t","u","s","k">>, <<"I","v","o","r","y">>>>,  \* tusk: Ivory
    <<<<"t","u","s","k","s">>, <<"I","v","o","r","y">>>>  \* tusks: Ivory
  >>

(***************************************************************************)
(* Lexicons local to ExcelParser._detect_animals (ai/excel_agent.py).      *)
(***************************************************************************)
\* ANIMALS of _detect_animals
XL_ANIMALS ==
  <<
    <<"e","l","e","p","h","a","n","t">>,  \* elephant
    <<"e","l","e","p","h","a","n","t","s">>,  \* elephants
    <<"t","u","s","k","e","r">>,  \* tusker
    <<"t","u","s","k","e","r","s">>,  \* tuskers
    <<"t","i","g","e","r">>,  \* tiger
    <<"t","i","g","e","r","s">>,  \* tigers
    <<"l","e","o","p","a","r","d">>,  \* leopard
    <<"l","e","o","p","a","r","d","s">>,  \* leopards
    <<"p","a","n","t","h","e","r">>,  \* panther
    <<"r","h","i","n","o">>,  \* rhino
    <<"r","h","i","n","o","c","e","r","o","s">>,  \* rhinoceros
    <<"r","h","i","n","o","s">>,  \* rhinos
    <<"p","a","n","g","o","l","i","n">>,  \* pangolin
    <<"p","a","n","g","o","l","i","n","s">>,  \* pangolins
    <<"s","c","a","l","y"," ","a","n","t","e","a","t","e","r">>,  \* scaly anteater
    <<"b","e","a","r">>,  \* bear
    <<"b","e","a","r","s">>,  \* bears
    <<"s","l","o","t","h"," ","b","e","a","r">>,  \* sloth bear
    <<"s","u","n"," ","b","e","a","r">>,  \* sun bear
    <<"p","o","l","a","r"," ","b","e","a","r">>,  \* polar bear
    <<"d","e","e","r">>,  \* deer
    <<"d","e","e","r","s">>,  \* deers
    <<"s","a","m","b","a","r">>,  \* sambar
    <<"c","h","i","t","a","l">>,  \* chital
    <<"s","p","o","t","t","e","d"," ","d","e","e","r">>,  \* spotted deer
    <<"m","u","n","t","j","a","c">>,  \* muntjac
    <<"a","x","i","s"," ","d","e","e","r">>,  \* axis deer
    <<"o","t","t","e","r">>,  \* otter
    <<"o","t","t","e","r","s">>,  \* otters
    <<"p","r","i","m","a","t","e">>,  \* primate
    <<"p","r","i","m","a","t","e","s">>,  \* primates
    <<"m","o","n","k","e","y">>,  \* monkey
    <<"m","o","n","k","e","y","s">>,  \* monkeys
    <<"m","a","c","a","q","u","e">>,  \* macaque
    <<"g","i","b","b","o","n">>,  \* gibbon
    <<"l","a","n","g","u","r">>,  \* langur
    <<"s","e","a","l">>,  \* seal
    <<"s","e","a","l","s">>,  \* seals
    <<"w","a","l","r","u","s">>,  \* walrus
    <<"w","a","l","r","u","s","e","s">>,  \* walruses
    <<"n","a","r","w","h","a","l">>,  \* narwhal
    <<"w","h","a","l","e">>,  \* whale
    <<"w","h","a","l","e","s">>,  \* whales
    <<"d","o","l","p","h","i","n">>,  \* dolphin
    <<"p","o","r","p","o","i","s","e">>,  \* porpoise
    <<"c","r","o","c","o","d","i","l","e">>,  \* crocodile
    <<"a","l","l","i","g","a","t","o","r">>,  \* alligator
    <<"s","n","a","k","e">>,  \* snake
    <<"s","n","a","k","e","s">>,  \* snakes
    <<"c","o","b","r","a">>,  \* cobra
    <<"c","o","b","r","a","s">>,  \* cobras
    <<"p","y","t","h","o","n">>,  \* python
    <<"p","y","t","h","o","n","s">>,  \* pythons
    <<"v","i","p","e","r">>,  \* viper
    <<"v","i","p","e","r","s">>,  \* vipers
    <<"t","u","r","t","l","e">>,  \* turtle
    <<"t","u","r","t","l","e","s">>,  \* turtles
    <<"t","o","r","t","o","i","s","e">>,  \* tortoise
    <<"t","o","r","t","o","i","s","e","s">>,  \* tortoises
    <<"s","e","a"," ","t","u","r","t","l","e">>,  \* sea turtle
    <<"s","e","a"," ","t","u","r","t","l","e","s">>,  \* sea turtles
    <<"s","h","a","r","k">>,  \* shark
    <<"s","h","a","r","k","s">>,  \* sharks
    <<"m","a","n","t","a"," ","r","a","y">>,  \* manta ray
    <<"m","a","n","t","a"," ","r","a","y","s">>,  \* manta rays
    <<"r","a","y">>,  \* ray
    <<"r","a","y","s">>,  \* rays
    <<"s","k","a","t","e">>,  \* skate
    <<"s","k","a","t","e","s">>,  \* skates
    <<"s","e","a","h","o","r","s","e">>,  \* seahorse
    <<"s","e","a"," ","c","u","c","u","m","b","e","r">>,  \* sea cucumber
    <<"s","e","a"," ","c","u","c","u","m","b","e","r","s">>,  \* sea cucumbers
    <<"s","c","o","r","p","i","o","n">>,  \* scorpion
    <<"s","c","o","r","p","i","o","n","s">>,  \* scorpions
    <<"b","u","t","t","e","r","f","l","y">>,  \* butterfly
    <<"b","u","t","t","e","r","f","l","i","e","s">>,  \* butterflies
    <<"b","e","e","t","l","e">>,  \* beetle
    <<"b","e","e","t","l","e","s">>,  \* beetles
    <<"l","i","v","e"," ","a","n","i","m","a","l">>,  \* live animal
    <<"l","i","v","e","_","a","n","i","m","a","l">>,  \* live_animal
    <<"c","a","p","t","i","v","e">>,  \* captive
    <<"a","l","i","v","e">>,  \* alive
    <<"j","u","v","e","n","i","l","e">>,  \* juvenile
    <<"h","a","t","c","h","l","i","n","g">>,  \* hatchling
    <<"c","h","i","c","k">>,  \* chick
    <<"c","h","i","c","k","s">>,  \* chicks
    <<"c","a","r","c","a","s","s">>,  \* carcass
    <<"c","a","r","c","a","s","s","e","s">>,  \* carcasses
    <<"d","e","a","d"," ","a","n","i","m","a","l">>,  \* dead animal
    <<"d","e","a","d","_","a","n","i","m","a","l">>  \* dead_animal
  >>

\* BIRDS of _detect_animals
XL_BIRDS ==
  <<
    <<"e","a","g","l","e">>,  \* eagle
    <<"e","a","g","l","e","s">>,  \* eagles
    <<"h","a","w","k">>,  \* hawk
    <<"h","a","w","k","s">>,  \* hawks
    <<"v","u","l","t","u","r","e">>,  \* vulture
    <<"v","u","l","t","u","r","e","s">>,  \* vultures
    <<"o","s","p","r","e","y">>,  \* osprey
    <<"p","a","r","r","o","t">>,  \* parrot
    <<"p","a","r","r","o","t","s">>,  \* parrots
    <<"c","o","c","k","a","t","o","o">>,  \* cockatoo
    <<"c","o","c","k","a","t","o","o","s">>,  \* cockatoos
    <<"m","a","c","a","w">>,  \* macaw
    <<"m","a","c","a","w","s">>,  \* macaws
    <<"p","e","a","c","o","c","k">>,  \* peacock
    <<"p","e","a","f","o","w","l">>,  \* peafowl
    <<"h","o","r","n","b","i","l","l">>,  \* hornbill
    <<"h","o","r","n","b","i","l","l","s">>,  \* hornbills
    <<"m","y","n","a">>,  \* myna
    <<"m","y","n","a","s">>,  \* mynas
    <<"h","i","l","l"," ","m","y","n","a">>,  \* hill myna
    <<"h","i","l","l"," ","m","y","n","a","s">>,  \* hill mynas
    <<"m","i","g","r","a","t","o","r","y"," ","b","i","r","d">>,  \* migratory bird
    <<"m","i","g","r","a","t","o","r","y"," ","b","i","r","d","s">>,  \* migratory birds
    <<"w","a","t","e","r","f","o","w","l">>,  \* waterfowl
    <<"d","u","c","k">>,  \* duck
    <<"d","u","c","k","s">>,  \* ducks
    <<"g","o","o","s","e">>,  \* goose
    <<"g","e","e","s","e">>,  \* geese
    <<"l","i","v","e"," ","b","i","r","d">>,  \* live bird
    <<"l","i","v","e","_","b","i","r","d">>,  \* live_bird
    <<"b","i","r","d"," ","e","g","g","s">>,  \* bird eggs
    <<"e","g","g">>,  \* egg
    <<"e","g","g","s">>  \* eggs
  >>

\* PRODUCTS of _detect_animals
XL_PRODUCTS ==
  <<
    <<"t","u","s","k">>,  \* tusk
    <<"t","u","s","k","s">>,  \* tusks
    <<"i","v","o","r","y">>,  \* ivory
    <<"e","l","e","p","h","a","n","t"," ","t","u","s","k">>,  \* elephant tusk
    <<"e","l","e","p","h","a","n","t"," ","t","u","s","k","s">>,  \* elephant tusks
    <<"h","o","r","n">>,  \* horn
    <<"h","o","r","n","s">>,  \* horns
    <<"r","h","i","n","o"," ","h","o","r","n">>,  \* rhino horn
    <<"r","h","i","n","o"," ","h","o","r","n","s">>,  \* rhino horns
    <<"a","n","t","l","e","r">>,  \* antler
    <<"a","n","t","l","e","r","s">>,  \* antlers
    <<"s","k","i","n">>,  \* skin
    <<"s","k","i","n","s">>,  \* skins
    <<"p","e","l","t">>,  \* pelt
    <<"p","e","l","t","s">>,  \* pelts
    <<"f","u","r">>,  \* fur
    <<"f","u","r","s">>,  \* furs
    <<"h","i","d","e">>,  \* hide
    <<"h","i","d","e","s">>,  \* hides
    <<"l","e","a","t","h","e","r">>,  \* leather
    <<"m","e","a","t">>,  \* meat
    <<"b","u","s","h","m","e","a","t">>,  \* bushmeat
    <<"b","o","n","e">>,  \* bone
    <<"b","o","n","e","s">>,  \* bones
    <<"s","k","e","l","e","t","o","n">>,  \* skeleton
    <<"s","k","u","l","l">>,  \* skull
    <<"t","e","e","t","h">>,  \* teeth
    <<"t","o","o","t","h">>,  \* tooth
    <<"m","o","l","a","r">>,  \* molar
    <<"c","l","a","w">>,  \* claw
    <<"c","l","a","w","s">>,  \* claws
    <<"f","e","a","t","h","e","r">>,  \* feather
    <<"f","e","a","t","h","e","r","s">>,  \* feathers
    <<"d","o","w","n">>,  \* down
    <<"s","c","a","l","e">>,  \* scale
    <<"s","c","a","l","e","s">>,  \* scales
    <<"p","a","n","g","o","l","i","n"," ","s","c","a","l","e","s">>,  \* pangolin scales
    <<"s","h","e","l","l">>,  \* shell
    <<"s","h","e","l","l","s">>,  \* shells
    <<"t","u","r","t","l","e"," ","s","h","e","l","l">>,  \* turtle shell
    <<"t","o","r","t","o","i","s","e"," ","s","h","e","l","l">>,  \* tortoise shell
    <<"g","i","l","l"," ","r","a","k","e","r">>,  \* gill raker
    <<"g","i","l","l"," ","r","a","k","e","r","s">>,  \* gill rakers
    <<"b","a","l","e","e","n">>,  \* baleen
    <<"w","h","a","l","e"," ","b","o","n","e">>,  \* whale bone
    <<"b","i","l","e">>,  \* bile
    <<"g","a","l","l","b","l","a","d","d","e","r">>,  \* gallbladder
    <<"o","r","g","a","n","s">>,  \* organs
    <<"l","i","v","e","r">>,  \* liver
    <<"h","e","a","r","t">>,  \* heart
    <<"g","e","n","i","t","a","l","s">>,  \* genitals
    <<"s","k","i","n"," ","f","r","a","g","m","e","n","t">>,  \* skin fragment
    <<"p","r","e","s","e","r","v","e","d"," ","s","k","i","n">>,  \* preserved skin
    <<"p","r","e","s","e","r","v","e","d","_","s","k","i","n">>,  \* preserved_skin
    <<"t","r","o","p","h","y">>,  \* trophy
    <<"t","a","x","i","d","e","r","m","y">>,  \* taxidermy
    <<"m","o","u","n","t","e","d"," ","h","e","a","d">>,  \* mounted head
    <<"s","h","a","r","k"," ","f","i","n">>,  \* shark fin
    <<"s","h","a","r","k"," ","f","i","n","s">>,  \* shark fins
    <<"s","h","a","r","k","_","f","i","n">>,  \* shark_fin
    <<"b","e","c","h","e","-","d","e","-","m","e","r">>,  \* beche-de-mer
    <<"b","e","c","h","e","_","d","e","_","m","e","r">>,  \* beche_de_mer
    <<"c","o","r","a","l">>,  \* coral
    <<"l","i","v","e"," ","c","o","r","a","l">>,  \* live coral
    <<"l","i","v","e"," ","s","p","e","c","i","m","e","n">>,  \* live specimen
    <<"l","i","v","e","_","s","p","e","c","i","m","e","n">>,  \* live_specimen
    <<"l","i","v","e"," ","r","e","p","t","i","l","e">>,  \* live reptile
    <<"l","i","v","e","_","r","e","p","t","i","l","e">>,  \* live_reptile
    <<"h","a","n","d","i","c","r","a","f","t">>,  \* handicraft
    <<"o","r","n","a","m","e","n","t">>,  \* ornament
    <<"j","e","w","e","l","r","y">>,  \* jewelry
    <<"c","a","r","v","e","d"," ","i","v","o","r","y">>,  \* carved ivory
    <<"c","a","r","v","e","d","_","h","o","r","n">>  \* carved_horn
  >>

\* NORMALIZATION_MAP of _detect_animals, as <<key, value>> pairs
XL_NORMALIZATION_MAP ==
  <<
    <<<<"t","u","s","k","e","r">>, <<"A","s","i","a","n"," ","E","l","e","p","h","a","n","t">>>>,  \* tusker: Asian Elephant
    <<<<"t","u","s","k","e","r","s">>, <<"A","s","i","a","n"," ","E","l","e","p","h","a","n","t">>>>,  \* tuskers: Asian Elephant
    <<<<"e","l","e","p","h","a","n","t">>, <<"A","s","i","a","n"," ","E","l","e","p","h","a","n","t">>>>,  \* elephant: Asian Elephant
    <<<<"e","l","e","p","h","a","n","t","s">>, <<"A","s","i","a","n"," ","E","l","e","p","h","a","n","t">>>>,  \* elephants: Asian Elephant
    <<<<"t","i","g","e","r">>, <<"R","o","y","a","l"," ","B","e","n","g","a","l"," ","T","i","g","e","r">>>>,  \* tiger: Royal Bengal Tiger
    <<<<"t","i","g","e","r","s">>, <<"R","o","y","a","l"," ","B","e","n","g","a","l"," ","T","i","g","e","r">>>>,  \* tigers: Royal Bengal Tiger
    <<<<"l","e","o","p","a","r","d">>, <<"L","e","o","p","a","r","d">>>>,  \* leopard: Leopard
    <<<<"l","e","o","p","a","r","d","s">>, <<"L","e","o","p","a","r","d">>>>,  \* leopards: Leopard
    <<<<"p","a","n","t","h","e","r">>, <<"L","e","o","p","a","r","d">>>>,  \* panther: Leopard
    <<<<"r","h","i","n","o">>, <<"R","h","i","n","o","c","e","r","o","s">>>>,  \* rhino: Rhinoceros
    <<<<"r","h","i","n","o","c","e","r","o","s">>, <<"R","h","i","n","o","c","e","r","o","s">>>>,  \* rhinoceros: Rhinoceros
    <<<<"p","a","n","g","o","l","i","n">>, <<"P","a","n","g","o","l","i","n">>>>,  \* pangolin: Pangolin
    <<<<"p","a","n","g","o","l","i","n","s">>, <<"P","a","n","g","o","l","i","n">>>>,  \* pangolins: Pangolin
    <<<<"s","c","a","l","y"," ","a","n","t","e","a","t","e","r">>, <<"P","a","n","g","o","l","i","n">>>>,  \* scaly anteater: Pangolin
    <<<<"b","e","a","r">>, <<"B","e","a","r">>>>,  \* bear: Bear
    <<<<"s","l","o","t","h"," ","b","e","a","r">>, <<"S","l","o","t","h"," ","B","e","a","r">>>>,  \* sloth bear: Sloth Bear
    <<<<"d","e","e","r">>, <<"D","e","e","r">>>>,  \* deer: Deer
    <<<<"s","p","o","t","t","e","d"," ","d","e","e","r">>, <<"S","p","o","t","t","e","d"," ","D","e","e","r">>>>,  \* spotted deer: Spotted Deer
    <<<<"b","a","r","k","i","n","g"," ","d","e","e","r">>, <<"B","a","r","k","i","n","g"," ","D","e","e","r">>>>,  \* barking deer: Barking Deer
    <<<<"s","a","m","b","a","r">>, <<"S","a","m","b","a","r"," ","D","e","e","r">>>>,  \* sambar: Sambar Deer
    <<<<"s","n","a","k","e">>, <<"S","n","a","k","e">>>>,  \* snake: Snake
    <<<<"c","o","b","r","a">>, <<"C","o","b","r","a">>>>,  \* cobra: Cobra
    <<<<"p","y","t","h","o","n">>, <<"P","y","t","h","o","n">>>>,  \* python: Python
    <<<<"t","u","r","t","l","e">>, <<"T","u","r","t","l","e">>>>,  \* turtle: Turtle
    <<<<"t","o","r","t","o","i","s","e">>, <<"T","o","r","t","o","i","s","e">>>>,  \* tortoise: Tortoise
    <<<<"s","k","i","n">>, <<"A","n","i","m","a","l"," ","S","k","i","n">>>>,  \* skin: Animal Skin
    <<<<"s","k","i","n","s">>, <<"A","n","i","m","a","l"," ","S","k","i","n">>>>,  \* skins: Animal Skin
    <<<<"h","i","d","e">>, <<"A","n","i","m","a","l"," ","S","k","i","n">>>>,  \* hide: Animal Skin
    <<<<"i","v","o","r","y">>, <<"I","v","o","r","y">>>>,  \* ivory: Ivory
    <<<<"t","u","s","k">>, <<"I","v","o","r","y">>>>,  \* tusk: Ivory
    <<<<"t","u","s","k","s">>, <<"I","v","o","r","y">>>>  \* tusks: Ivory
  >>

(***************************************************************************)
(* Python values: None and str                                             *)
(***************************************************************************)
PyNone == [kind |-> "None", str |-> << >>]
PyStr(s) == [kind |-> "str", str |-> s]

\* the outcome of a call that raised an exception
PyRaised == [kind |-> "raised", str |-> << >>]

\* Falsy with the test for None left out: "if description == ''"
FalsyEmptyStr(x) == x.kind = "str" /\ x.str = << >>

\* "not x" for x a str or None
Falsy(x) == x.kind = "None" \/ x.str = << >>

\* calling a method of str on x raises AttributeError when x is None
NoStrMethods(x) == x.kind # "str"

(***************************************************************************)
(* Term lists by first character.  "t in s" holds for a term t exactly     *)
(* when t occurs at some index of s whose character is the first of t, so  *)
(* the loops "for t in terms: if t in s" are computed index by index over  *)
(* the terms that start with the character found there.                    *)
(***************************************************************************)
\* the positions in terms of the terms that start with c
ByFirstChar(terms) == [c \in Chars |-> {i \in 1..Len(terms) : terms[i][1] = c}]

ANIMALS_BY_CHAR == ByFirstChar(ANIMALS)
\* ANIMALS + BIRDS
ANIMALS_BIRDS == ANIMALS \o BIRDS
XL_ANIMALS_BIRDS == XL_ANIMALS \o XL_BIRDS

ANIMALS_BIRDS_BY_CHAR == ByFirstChar(ANIMALS_BIRDS)
PRODUCTS_BY_CHAR == ByFirstChar(PRODUCTS)
CONTEXT_SIGNALS_BY_CHAR == ByFirstChar(CONTEXT_SIGNALS)
XL_ANIMALS_BY_CHAR == ByFirstChar(XL_ANIMALS)
XL_ANIMALS_BIRDS_BY_CHAR == ByFirstChar(XL_ANIMALS_BIRDS)
XL_PRODUCTS_BY_CHAR == ByFirstChar(XL_PRODUCTS)

\* the positions in terms of the terms that occur in text at index pos
TermsAt(terms, byChar, text, pos) ==
  {i \in byChar[text[pos]] : OccursAt(terms[i], text, pos)}

\* the positions in terms of the terms t with "t in text"
TermsIn(terms, byChar, text) ==
  UNION {TermsAt(terms, byChar, text, pos) : pos \in 1..Len(text)}

\* any(t in text for t in terms)
AnyTermIn(terms, byChar, text) ==
  \E pos \in 1..Len(text) : TermsAt(terms, byChar, text, pos) # {}

(***************************************************************************)
(* Regular expressions of the detectors                                    *)
(***************************************************************************)
\* the index after the run of characters of class \s that starts at pos
SpaceRunEnd(text, pos) ==
  CHOOSE e \in pos..(Len(text) + 1) :
    /\ \A k \in pos..(e - 1) : IsSpace(text[k])
    /\ e = Len(text) + 1 \/ ~IsSpace(text[e])

\* the index after the run of characters of class \w that starts at pos
WordRunEnd(text, pos) ==
  CHOOSE e \in pos..(Len(text) + 1) :
    /\ \A k \in pos..(e - 1) : IsWordChar(text[k])
    /\ e = Len(text) + 1 \/ ~IsWordChar(text[e])

\* the least and the greatest element of a non-empty set of integers
Min(S) == CHOOSE x \in S : \A y \in S : x <= y
Max(S) == CHOOSE x \in S : \A y \in S : y <= x

\* the first of the alternatives in here (0 when there is none)
FirstOf(here) == IF here = {} THEN 0 ELSE Min(here)

\* the first alternative of the alternation "t1|t2|..." that matches at pos
\* (0 when none does)
FirstTermAt(terms, byChar, text, pos) ==
  FirstOf(IF pos <= Len(text) THEN TermsAt(terms, byChar, text, pos) ELSE {})

NoMatch == [ok |-> FALSE]

\* the match of the tail whose \s+ ends at x and whose product is
\* alternative t
TailMatch(products, x, t) ==
  [ok |-> TRUE, product |-> products[t], end |-> x + Len(products[t])]

\* the match of the tail, given the ends of \s+ after which a product
\* alternative matches: the longest \s+ wins
LongestTail(products, byChar, text, ends) ==
  IF ends = {} THEN NoMatch
  ELSE TailMatch(products, Max(ends),
                 FirstTermAt(products, byChar, text, Max(ends)))

\* "\s+(product_pattern)" at pos: \s+ is greedy and gives characters back
\* until a product alternative matches after it
TryTail(products, byChar, text, pos) ==
  LongestTail(products, byChar, text,
              {x \in (pos + 1)..SpaceRunEnd(text, pos) :
                 FirstTermAt(products, byChar, text, x) # 0})

\* the match a when there is one, b otherwise
OrElse(a, b) == IF a.ok THEN a ELSE b

RECURSIVE TryRest(_, _, _, _, _)
\* one more repetition of the filler group at pos, its \s+ ending at e1 and
\* its \w+ at e2, and the rest of the pattern after it
TryRepeat(products, byChar, text, pos, k, e1, e2) ==
  IF k > 0 /\ e1 > pos /\ e2 > e1
    THEN TryRest(products, byChar, text, e2, k - 1)
    ELSE NoMatch

\* "(?:\s+\w+){0,k}\s+(product_pattern)" at pos.  The group is greedy: one
\* more repetition is tried before the tail.  Inside a repetition \s+ and
\* \w+ take their whole run; a shorter run cannot lead to a match, because
\* what follows \s+ is \w+ and what follows \w+ is \s+, and a character
\* given back by a run is of the class of that run.
TryRest(products, byChar, text, pos, k) ==
  OrElse(TryRepeat(products, byChar, text, pos, k, SpaceRunEnd(text, pos),
                   WordRunEnd(text, SpaceRunEnd(text, pos))),
         TryTail(products, byChar, text, pos))

\* the filler group of composite_regex repeats at most this many times
MaxFiller == 3

\* the rest of composite_regex after animal alternative i matched at pos
RestAfter(animals, products, pByChar, text, pos, i) ==
  TryRest(products, pByChar, text, pos + Len(animals[i]), MaxFiller)

\* the match of composite_regex with animal alternative i and the rest
MatchWith(animals, i, rest) ==
  [ok |-> TRUE, animal |-> animals[i], product |-> rest.product,
   end |-> rest.end]

\* the match at pos, given the animal alternatives with which the rest of
\* the pattern matches: the first one in list order wins
FirstGood(animals, products, pByChar, text, pos, good) ==
  IF good = {} THEN NoMatch
  ELSE MatchWith(animals, Min(good),
                 RestAfter(animals, products, pByChar, text, pos, Min(good)))

\* composite_regex.match(text, pos): the animal alternatives are tried in
\* list order; the first one with which the rest of the pattern matches wins
CompositeMatchAt(animals, aByChar, products, pByChar, text, pos) ==
  FirstGood(animals, products, pByChar, text, pos,
            {i \in TermsAt(animals, aByChar, text, pos) :
               RestAfter(animals, products, pByChar, text, pos, i).ok})

RECURSIVE CompositeFindAll(_, _, _, _, _, _)
\* the scan after the attempt m at pos: it goes on at the end of a match,
\* or at the next index
FindAllAfter(animals, aByChar, products, pByChar, text, pos, m) ==
  IF m.ok
    THEN {<<m.animal, m.product>>}
           \cup CompositeFindAll(animals, aByChar, products, pByChar, text, m.end)
    ELSE CompositeFindAll(animals, aByChar, products, pByChar, text, pos + 1)

\* composite_regex.findall(text) from pos on: the (animal, product) groups of
\* the non-overlapping matches, scanning left to right
CompositeFindAll(animals, aByChar, products, pByChar, text, pos) ==
  IF pos > Len(text) THEN {}
  ELSE FindAllAfter(animals, aByChar, products, pByChar, text, pos,
                    CompositeMatchAt(animals, aByChar, products, pByChar, text, pos))

\* the assertion \b at index p: exactly one of the characters before and at
\* p is of class \w
WordBoundary(text, p) ==
  LET before == IF p > 1 THEN IsWordChar(text[p - 1]) ELSE FALSE
      at == IF p <= Len(text) THEN IsWordChar(text[p]) ELSE FALSE
  IN before # at

\* the positions in terms of the terms t for which
\* re.search(r'\b' + re.escape(t) + r'\b', text) finds a match
WordSearchAll(terms, byChar, text) ==
  UNION {{i \in TermsAt(terms, byChar, text, pos) :
            WordBoundary(text, pos) /\ WordBoundary(text, pos + Len(terms[i]))} :
         pos \in 1..Len(text)}

\* re.split(r'[.!?]+', s)
IsSentenceEnd(c) == c = "." \/ c = "!" \/ c = "?"

RECURSIVE SplitSentences(_)
SplitSentences(s) ==
  IF \A i \in 1..Len(s) : ~IsSentenceEnd(s[i]) THEN <<s>>
  ELSE LET a == CHOOSE i \in 1..Len(s) :
                  IsSentenceEnd(s[i]) /\ \A k \in 1..(i - 1) : ~IsSentenceEnd(s[k])
           b == CHOOSE e \in (a + 1)..(Len(s) + 1) :
                  /\ \A k \in a..(e - 1) : IsSentenceEnd(s[k])
                  /\ e = Len(s) + 1 \/ ~IsSentenceEnd(s[e])
       IN <<SubSeq(s, 1, a - 1)>> \o SplitSentences(SubSeq(s, b, Len(s)))

(***************************************************************************)
(* AnimalDetector.detect                                                   *)
(***************************************************************************)
\* the sentences kept in relevant_text_parts
RelevantTextParts(sentences) ==
  LET Relevant(sent) ==
        LET sent_lower == Lower(sent)
        IN \/ AnyTermIn(CONTEXT_SIGNALS, CONTEXT_SIGNALS_BY_CHAR, sent_lower)
           \/ AnyTermIn(PRODUCTS, PRODUCTS_BY_CHAR, sent_lower)
  IN SelectSeq(sentences, Relevant)

\* the joined sentences, and nothing when no sentence qualifies
ScanTextNoFallback(description, parts) ==
  IF parts # << >> THEN Lower(Join(<<" ">>, parts)) ELSE << >>

\* text_to_scan, given relevant_text_parts
ScanText(description, parts) ==
  IF parts # << >> THEN Lower(Join(<<" ">>, parts)) ELSE Lower(description)

TextToScan(description) ==
  ScanText(description,
           RelevantTextParts(SplitSentences(Strip(ReplaceNewlines(description)))))

\* the candidate "{animal} {product}" of a composite match
Composite(animal, product) == animal \o <<" ">> \o product

\* raw_candidates after the three passes
RawCandidates(text) ==
  {PRODUCTS[i] : i \in TermsIn(PRODUCTS, PRODUCTS_BY_CHAR, text)}
  \cup {Composite(m[1], m[2]) :
          m \in CompositeFindAll(ANIMALS, ANIMALS_BY_CHAR, PRODUCTS, PRODUCTS_BY_CHAR, text, 1)}
  \cup {ANIMALS_BIRDS[i] :
          i \in WordSearchAll(ANIMALS_BIRDS, ANIMALS_BIRDS_BY_CHAR, text)}

\* every candidate, in the text or not
VerifiedCandidatesUnchecked(raw, text) == raw

VerifiedCandidates(raw, text) == {item \in raw : Contains(text, item)}

\* the candidates of S that may sort first: the longest ones
LongestOf(S) == {x \in S : \A y \in S : Len(x) >= Len(y)}

\* sorted(verified_candidates, key=len, reverse=True).  The sort is stable
\* and verified_candidates is listed in the order the set raw_candidates is
\* iterated in, which the hash seed of the run decides: the outcomes are the
\* arrangements of S with the longest first, candidates of equal length in
\* any order.
RECURSIVE SortedCandidates(_)
SortedCandidates(S) ==
  IF S = {} THEN {<< >>}
  ELSE UNION {{<<m>> \o rest : rest \in SortedCandidates(S \ {m})} : m \in LongestOf(S)}

\* redundant when an item already kept is inside the candidate
IsRedundantSwapped(candidate, kept) ==
  \E existing \in kept : Contains(candidate, existing)

\* redundant when an item of the same length is already kept
IsRedundantSameLength(candidate, kept) ==
  \E existing \in kept : Len(existing) = Len(candidate)

\* one candidate of the walk: redundant when it is inside an item already kept
IsRedundant(candidate, kept) == \E existing \in kept : Contains(existing, candidate)

\* unique_items: the walk over sorted_candidates
RECURSIVE UniqueItems(_, _)
UniqueItems(sorted_candidates, kept) ==
  IF sorted_candidates = << >> THEN kept
  ELSE LET candidate == Head(sorted_candidates)
       IN IF IsRedundant(candidate, kept)
            THEN UniqueItems(Tail(sorted_candidates), kept)
            ELSE UniqueItems(Tail(sorted_candidates), kept \cup {candidate})

\* dict lookup: key in map, map[key]
MapHas(map, key) == \E i \in 1..Len(map) : map[i][1] = key
MapGet(map, key) == map[CHOOSE i \in 1..Len(map) : map[i][1] = key][2]

\* map[key] when key is in map, default otherwise
MapGetOr(map, key, default) ==
  IF MapHas(map, key) THEN MapGet(map, key) ELSE default

\* the label of one kept item
Canonical(item) == MapGetOr(NORMALIZATION_MAP, item, Title(item))

FinalOutput(unique_items) == {Canonical(item) : item \in unique_items}

SkinWord == <<"S","k","i","n">>
AnimalSkin == <<"A","n","i","m","a","l"," ","S","k","i","n">>

\* list.remove(x) for x in list: the list without the first x
RemoveFirst(list, x) ==
  RemoveAt(list, CHOOSE k \in 1..Len(list) :
                   list[k] = x /\ \A j \in 1..(k - 1) : list[j] # x)

\* a label with 'Skin' in it, 'Animal Skin' or another, is in result_list
HasAnySkin(result_list) ==
  \E i \in 1..Len(result_list) : Contains(result_list[i], SkinWord)

\* a label with 'Skin' in it other than 'Animal Skin' is in result_list
HasSpecificSkin(result_list) ==
  \E i \in 1..Len(result_list) :
    Contains(result_list[i], SkinWord) /\ result_list[i] # AnimalSkin

\* result_list without the generic 'Animal Skin' when a specific skin label
\* is present
WithoutGenericSkin(result_list) ==
  IF HasSpecificSkin(result_list) /\ AnimalSkin \in Elems(result_list)
    THEN RemoveFirst(result_list, AnimalSkin)
    ELSE result_list

\* result_list: the sorted labels, after the removal of 'Animal Skin'
ResultList(final_output) == WithoutGenericSkin(Sorted(ListOf(final_output)))

CommaSpace == <<",", " ">>

(***************************************************************************)
(* Word lists of ai/filter_utils.py                                        *)
(***************************************************************************)
\* product_indicators of extract_species_from_compound_name
PRODUCT_INDICATORS ==
  <<
    <<"s","k","i","n">>,  \* skin
    <<"s","k","i","n","s">>,  \* skins
    <<"h","i","d","e">>,  \* hide
    <<"h","i","d","e","s">>,  \* hides
    <<"s","c","a","l","e">>,  \* scale
    <<"s","c","a","l","e","s">>,  \* scales
    <<"s","c","a","l","y">>,  \* scaly
    <<"h","o","r","n">>,  \* horn
    <<"h","o","r","n","s">>,  \* horns
    <<"t","u","s","k">>,  \* tusk
    <<"t","u","s","k","s">>,  \* tusks
    <<"t","o","o","t","h">>,  \* tooth
    <<"t","e","e","t","h">>,  \* teeth
    <<"f","a","n","g">>,  \* fang
    <<"f","a","n","g","s">>,  \* fangs
    <<"b","o","n","e">>,  \* bone
    <<"b","o","n","e","s">>,  \* bones
    <<"m","e","a","t">>,  \* meat
    <<"f","u","r">>,  \* fur
    <<"p","e","l","t">>,  \* pelt
    <<"p","e","l","t","s">>,  \* pelts
    <<"l","e","a","t","h","e","r">>,  \* leather
    <<"i","v","o","r","y">>,  \* ivory
    <<"c","l","a","w">>,  \* claw
    <<"c","l","a","w","s">>,  \* claws
    <<"t","a","i","l">>,  \* tail
    <<"t","a","i","l","s">>,  \* tails
    <<"f","e","a","t","h","e","r">>,  \* feather
    <<"f","e","a","t","h","e","r","s">>,  \* feathers
    <<"e","g","g">>,  \* egg
    <<"e","g","g","s">>,  \* eggs
    <<"s","h","e","l","l">>,  \* shell
    <<"s","h","e","l","l","s">>,  \* shells
    <<"b","i","l","e">>,  \* bile
    <<"g","a","l","l","b","l","a","d","d","e","r">>,  \* gallbladder
    <<"o","r","g","a","n">>,  \* organ
    <<"o","r","g","a","n","s">>,  \* organs
    <<"b","l","o","o","d">>,  \* blood
    <<"f","a","t">>,  \* fat
    <<"o","i","l">>,  \* oil
    <<"p","o","w","d","e","r">>,  \* powder
    <<"p","o","w","d","e","r","e","d">>,  \* powdered
    <<"e","x","t","r","a","c","t">>,  \* extract
    <<"e","x","t","r","a","c","t","s">>,  \* extracts
    <<"m","e","d","i","c","i","n","e">>,  \* medicine
    <<"m","e","d","i","c","i","n","a","l">>,  \* medicinal
    <<"t","r","a","d","i","t","i","o","n","a","l">>,  \* traditional
    <<"c","a","r","v","i","n","g">>,  \* carving
    <<"c","a","r","v","i","n","g","s">>,  \* carvings
    <<"j","e","w","e","l","r","y">>,  \* jewelry
    <<"j","e","w","e","l","l","e","r","y">>,  \* jewellery
    <<"a","r","t","i","f","a","c","t">>,  \* artifact
    <<"a","r","t","i","f","a","c","t","s">>,  \* artifacts
    <<"d","e","c","o","r","a","t","i","v","e">>,  \* decorative
    <<"d","e","c","o","r","a","t","i","o","n">>,  \* decoration
    <<"t","r","o","p","h","y">>,  \* trophy
    <<"t","r","o","p","h","i","e","s">>,  \* trophies
    <<"m","o","u","n","t">>,  \* mount
    <<"m","o","u","n","t","e","d">>  \* mounted
  >>

\* the words a candidate must contain to look like a species name
SPECIES_WORDS ==
  <<
    <<"t","i","g","e","r">>,  \* tiger
    <<"e","l","e","p","h","a","n","t">>,  \* elephant
    <<"p","a","n","g","o","l","i","n">>,  \* pangolin
    <<"t","u","r","t","l","e">>,  \* turtle
    <<"s","n","a","k","e">>,  \* snake
    <<"b","i","r","d">>,  \* bird
    <<"b","e","a","r">>,  \* bear
    <<"d","e","e","r">>,  \* deer
    <<"l","i","o","n">>,  \* lion
    <<"c","h","e","e","t","a","h">>,  \* cheetah
    <<"j","a","g","u","a","r">>,  \* jaguar
    <<"c","r","o","c","o","d","i","l","e">>,  \* crocodile
    <<"s","h","a","r","k">>,  \* shark
    <<"w","h","a","l","e">>,  \* whale
    <<"d","o","l","p","h","i","n">>,  \* dolphin
    <<"s","e","a","l">>,  \* seal
    <<"o","t","t","e","r">>,  \* otter
    <<"m","o","n","k","e","y">>,  \* monkey
    <<"a","p","e">>,  \* ape
    <<"e","a","g","l","e">>,  \* eagle
    <<"o","w","l">>,  \* owl
    <<"p","a","r","r","o","t">>  \* parrot
  >>

\* the words a candidate of several words may end with
SPECIES_ENDINGS ==
  <<
    <<"t","i","g","e","r">>,  \* tiger
    <<"e","l","e","p","h","a","n","t">>,  \* elephant
    <<"p","a","n","g","o","l","i","n">>,  \* pangolin
    <<"t","u","r","t","l","e">>,  \* turtle
    <<"s","n","a","k","e">>,  \* snake
    <<"b","i","r","d">>,  \* bird
    <<"b","e","a","r">>,  \* bear
    <<"d","e","e","r">>,  \* deer
    <<"l","i","o","n">>  \* lion
  >>

\* the candidates that are never accepted
NOT_A_CANDIDATE ==
  <<
    <<"a","n","i","m","a","l">>,  \* animal
    <<"w","i","l","d","l","i","f","e">>,  \* wildlife
    <<"c","r","e","a","t","u","r","e">>,  \* creature
    <<"w","i","l","d">>,  \* wild
    <<"e","x","o","t","i","c">>  \* exotic
  >>

\* NOT_A_FIRST_WORD with 'animal' left out
NOT_A_FIRST_WORD_NoAnimal ==
  <<
    <<"w","i","l","d","l","i","f","e">>,  \* wildlife
    <<"c","r","e","a","t","u","r","e">>  \* creature
  >>

\* the first words that are never accepted
NOT_A_FIRST_WORD ==
  <<
    <<"a","n","i","m","a","l">>,  \* animal
    <<"w","i","l","d","l","i","f","e">>,  \* wildlife
    <<"c","r","e","a","t","u","r","e">>  \* creature
  >>

\* the generic terms filter_species_from_products skips
GENERIC_TERMS ==
  <<
    <<"a","n","i","m","a","l">>,  \* animal
    <<"a","n","i","m","a","l","s">>,  \* animals
    <<"w","i","l","d","l","i","f","e">>,  \* wildlife
    <<"c","r","e","a","t","u","r","e">>,  \* creature
    <<"c","r","e","a","t","u","r","e","s">>  \* creatures
  >>

\* known_species of filter_species_from_products, in source order
KNOWN_SPECIES_LIST ==
  <<
    <<"t","i","g","e","r">>,  \* tiger
    <<"t","i","g","e","r","s">>,  \* tigers
    <<"l","e","o","p","a","r","d">>,  \* leopard
    <<"l","e","o","p","a","r","d","s">>,  \* leopards
    <<"p","a","n","t","h","e","r">>,  \* panther
    <<"p","a","n","t","h","e","r","s">>,  \* panthers
    <<"l","i","o","n">>,  \* lion
    <<"l","i","o","n","s">>,  \* lions
    <<"c","h","e","e","t","a","h">>,  \* cheetah
    <<"c","h","e","e","t","a","h","s">>,  \* cheetahs
    <<"j","a","g","u","a","r">>,  \* jaguar
    <<"j","a","g","u","a","r","s">>,  \* jaguars
    <<"s","n","o","w"," ","l","e","o","p","a","r","d">>,  \* snow leopard
    <<"s","n","o","w"," ","l","e","o","p","a","r","d","s">>,  \* snow leopards
    <<"c","l","o","u","d","e","d"," ","l","e","o","p","a","r","d">>,  \* clouded leopard
    <<"c","l","o","u","d","e","d"," ","l","e","o","p","a","r","d","s">>,  \* clouded leopards
    <<"e","l","e","p","h","a","n","t">>,  \* elephant
    <<"e","l","e","p","h","a","n","t","s">>,  \* elephants
    <<"a","s","i","a","n"," ","e","l","e","p","h","a","n","t">>,  \* asian elephant
    <<"a","f","r","i","c","a","n"," ","e","l","e","p","h","a","n","t">>,  \* african elephant
    <<"r","h","i","n","o">>,  \* rhino
    <<"r","h","i","n","o","s">>,  \* rhinos
    <<"r","h","i","n","o","c","e","r","o","s">>,  \* rhinoceros
    <<"i","n","d","i","a","n"," ","r","h","i","n","o">>,  \* indian rhino
    <<"j","a","v","a","n"," ","r","h","i","n","o">>,  \* javan rhino
    <<"s","u","m","a","t","r","a","n"," ","r","h","i","n","o">>,  \* sumatran rhino
    <<"p","a","n","g","o","l","i","n">>,  \* pangolin
    <<"p","a","n","g","o","l","i","n","s">>,  \* pangolins
    <<"i","n","d","i","a","n"," ","p","a","n","g","o","l","i","n">>,  \* indian pangolin
    <<"c","h","i","n","e","s","e"," ","p","a","n","g","o","l","i","n">>,  \* chinese pangolin
    <<"s","u","n","d","a"," ","p","a","n","g","o","l","i","n">>,  \* sunda pangolin
    <<"t","u","r","t","l","e">>,  \* turtle
    <<"t","u","r","t","l","e","s">>,  \* turtles
    <<"t","o","r","t","o","i","s","e">>,  \* tortoise
    <<"t","o","r","t","o","i","s","e","s">>,  \* tortoises
    <<"s","e","a"," ","t","u","r","t","l","e">>,  \* sea turtle
    <<"m","a","r","i","n","e"," ","t","u","r","t","l","e">>,  \* marine turtle
    <<"s","n","a","k","e">>,  \* snake
    <<"s","n","a","k","e","s">>,  \* snakes
    <<"c","o","b","r","a">>,  \* cobra
    <<"k","i","n","g"," ","c","o","b","r","a">>,  \* king cobra
    <<"p","y","t","h","o","n">>,  \* python
    <<"a","n","a","c","o","n","d","a">>,  \* anaconda
    <<"l","i","z","a","r","d">>,  \* lizard
    <<"l","i","z","a","r","d","s">>,  \* lizards
    <<"m","o","n","i","t","o","r"," ","l","i","z","a","r","d">>,  \* monitor lizard
    <<"i","g","u","a","n","a">>,  \* iguana
    <<"g","e","c","k","o">>,  \* gecko
    <<"c","r","o","c","o","d","i","l","e">>,  \* crocodile
    <<"c","r","o","c","o","d","i","l","e","s">>,  \* crocodiles
    <<"a","l","l","i","g","a","t","o","r">>,  \* alligator
    <<"a","l","l","i","g","a","t","o","r","s">>,  \* alligators
    <<"g","h","a","r","i","a","l">>,  \* gharial
    <<"f","r","o","g">>,  \* frog
    <<"f","r","o","g","s">>,  \* frogs
    <<"t","o","a","d">>,  \* toad
    <<"t","o","a","d","s">>,  \* toads
    <<"b","i","r","d">>,  \* bird
    <<"b","i","r","d","s">>,  \* birds
    <<"p","a","r","r","o","t">>,  \* parrot
    <<"p","a","r","r","o","t","s">>,  \* parrots
    <<"c","o","c","k","a","t","o","o">>,  \* cockatoo
    <<"m","a","c","a","w">>,  \* macaw
    <<"e","a","g","l","e">>,  \* eagle
    <<"e","a","g","l","e","s">>,  \* eagles
    <<"h","a","w","k">>,  \* hawk
    <<"f","a","l","c","o","n">>,  \* falcon
    <<"o","w","l">>,  \* owl
    <<"o","w","l","s">>,  \* owls
    <<"p","e","a","c","o","c","k">>,  \* peacock
    <<"p","h","e","a","s","a","n","t">>,  \* pheasant
    <<"q","u","a","i","l">>,  \* quail
    <<"p","i","g","e","o","n">>,  \* pigeon
    <<"d","o","v","e">>,  \* dove
    <<"m","o","n","k","e","y">>,  \* monkey
    <<"m","o","n","k","e","y","s">>,  \* monkeys
    <<"a","p","e">>,  \* ape
    <<"a","p","e","s">>,  \* apes
    <<"c","h","i","m","p","a","n","z","e","e">>,  \* chimpanzee
    <<"g","o","r","i","l","l","a">>,  \* gorilla
    <<"o","r","a","n","g","u","t","a","n">>,  \* orangutan
    <<"g","i","b","b","o","n">>,  \* gibbon
    <<"l","a","n","g","u","r">>,  \* langur
    <<"m","a","c","a","q","u","e">>,  \* macaque
    <<"b","e","a","r">>,  \* bear
    <<"b","e","a","r","s">>,  \* bears
    <<"s","l","o","t","h"," ","b","e","a","r">>,  \* sloth bear
    <<"s","u","n"," ","b","e","a","r">>,  \* sun bear
    <<"g","r","i","z","z","l","y"," ","b","e","a","r">>,  \* grizzly bear
    <<"p","o","l","a","r"," ","b","e","a","r">>,  \* polar bear
    <<"d","e","e","r">>,  \* deer
    <<"s","t","a","g">>,  \* stag
    <<"a","n","t","e","l","o","p","e">>,  \* antelope
    <<"g","a","z","e","l","l","e">>,  \* gazelle
    <<"c","h","i","t","a","l">>,  \* chital
    <<"s","a","m","b","a","r">>,  \* sambar
    <<"w","o","l","f">>,  \* wolf
    <<"w","o","l","v","e","s">>,  \* wolves
    <<"d","h","o","l","e">>,  \* dhole
    <<"f","o","x">>,  \* fox
    <<"j","a","c","k","a","l">>,  \* jackal
    <<"w","h","a","l","e">>,  \* whale
    <<"w","h","a","l","e","s">>,  \* whales
    <<"d","o","l","p","h","i","n">>,  \* dolphin
    <<"d","o","l","p","h","i","n","s">>,  \* dolphins
    <<"p","o","r","p","o","i","s","e">>,  \* porpoise
    <<"s","e","a","l">>,  \* seal
    <<"s","e","a","l","s">>,  \* seals
    <<"s","e","a"," ","l","i","o","n">>,  \* sea lion
    <<"w","a","l","r","u","s">>,  \* walrus
    <<"s","h","a","r","k">>,  \* shark
    <<"s","h","a","r","k","s">>,  \* sharks
    <<"r","a","y">>,  \* ray
    <<"r","a","y","s">>,  \* rays
    <<"s","a","w","f","i","s","h">>,  \* sawfish
    <<"o","t","t","e","r">>,  \* otter
    <<"o","t","t","e","r","s">>,  \* otters
    <<"m","a","r","t","e","n">>,  \* marten
    <<"b","a","d","g","e","r">>,  \* badger
    <<"w","o","l","v","e","r","i","n","e">>,  \* wolverine
    <<"h","i","p","p","o","p","o","t","a","m","u","s">>,  \* hippopotamus
    <<"g","i","r","a","f","f","e">>,  \* giraffe
    <<"z","e","b","r","a">>,  \* zebra
    <<"b","u","f","f","a","l","o">>,  \* buffalo
    <<"b","i","s","o","n">>,  \* bison
    <<"p","o","r","c","u","p","i","n","e">>,  \* porcupine
    <<"h","e","d","g","e","h","o","g">>,  \* hedgehog
    <<"s","q","u","i","r","r","e","l">>,  \* squirrel
    <<"b","a","t">>,  \* bat
    <<"f","l","y","i","n","g"," ","f","o","x">>,  \* flying fox
    <<"b","u","t","t","e","r","f","l","y">>,  \* butterfly
    <<"b","e","e","t","l","e">>,  \* beetle
    <<"s","c","o","r","p","i","o","n">>,  \* scorpion
    <<"s","p","i","d","e","r">>  \* spider
  >>

KNOWN_SPECIES == Elems(KNOWN_SPECIES_LIST)

\* BeforeFirst with the wrong index: s.split(sep)[1], the part of s between
\* the first sep and the next
AfterFirst(s, sep) ==
  IF Contains(s, sep)
    THEN LET rest == SubSeq(s, Find(s, sep) + Len(sep), Len(s))
         IN IF Contains(rest, sep) THEN SubSeq(rest, 1, Find(rest, sep) - 1) ELSE rest
    ELSE s

\* s.split(sep)[0]: the part of s before the first sep
BeforeFirst(s, sep) ==
  IF Contains(s, sep) THEN SubSeq(s, 1, Find(s, sep) - 1) ELSE s

\* s.split(): the runs of non-whitespace characters of s
RECURSIVE SplitWords(_)
SplitWords(s) ==
  LET t == Strip(s)
  IN IF t = << >> THEN << >>
     ELSE LET e == CHOOSE x \in 2..(Len(t) + 1) :
                     /\ \A k \in 1..(x - 1) : ~IsSpace(t[k])
                     /\ x = Len(t) + 1 \/ IsSpace(t[x])
          IN <<SubSeq(t, 1, e - 1)>> \o SplitWords(SubSeq(t, e, Len(t)))

\* s.endswith(t)
EndsWith(s, t) == Len(t) <= Len(s) /\ SubSeq(s, Len(s) - Len(t) + 1, Len(s)) = t

NotExtracted == [found |-> FALSE, value |-> << >>]
Extracted(s) == [found |-> TRUE, value |-> s]

\* ' '.join(words[:i])
Candidate(words, i) == Join(<<" ">>, SubSeq(words, 1, i))

\* the candidate of i words is returned: it is long enough, not excluded,
\* and contains a species word or, with several words, ends with one
LooksLikeSpecies(candidate, i) ==
  /\ Len(candidate) > 2
  /\ candidate \notin Elems(NOT_A_CANDIDATE)
  /\ \/ \E w \in Elems(SPECIES_WORDS) : Contains(Lower(candidate), w)
     \/ i > 1 /\ \E w \in Elems(SPECIES_ENDINGS) : EndsWith(Lower(candidate), w)

\* what the loop body returns for words, given the prefix lengths whose
\* candidate is returned: the longest candidate, else the first word
ReturnFor(words, accepted) ==
  IF accepted # {} THEN Extracted(Title(Candidate(words, Max(accepted))))
  ELSE IF Len(words[1]) > 2 /\ words[1] \notin Elems(NOT_A_FIRST_WORD)
    THEN Extracted(Title(words[1]))
  ELSE NotExtracted

\* the loop body from "if len(words) >= 1" on
ExtractFromWords(words) ==
  IF Len(words) = 0 THEN NotExtracted
  ELSE ReturnFor(words, {i \in 1..Len(words) :
                           LooksLikeSpecies(Candidate(words, i), i)})

\* species_part
SpeciesPart(compound_lower, after_space, before_space) ==
  IF Contains(compound_lower, after_space)
    THEN BeforeFirst(compound_lower, after_space)
    ELSE BeforeFirst(compound_lower, before_space)

\* the loop body for the indicator written after a space and before a space
ExtractAround(compound_lower, after_space, before_space) ==
  IF ~(Contains(compound_lower, after_space) \/ Contains(compound_lower, before_space))
    THEN NotExtracted
    ELSE ExtractFromWords(
           SplitWords(SpeciesPart(compound_lower, after_space, before_space)))

\* the body of the loop of extract_species_from_compound_name for one
\* indicator: the value it returns, or NotExtracted when the loop goes on
ExtractWith(compound_lower, indicator) ==
  ExtractAround(compound_lower, <<" ">> \o indicator, indicator \o <<" ">>)

RECURSIVE ExtractFrom(_, _, _)
\* the loop after indicator k gave r: return its value, or go on
ReturnOrGoOn(compound_name, compound_lower, k, r) ==
  IF r.found THEN r.value ELSE ExtractFrom(compound_name, compound_lower, k + 1)

\* the loop over product_indicators from indicator k on
ExtractFrom(compound_name, compound_lower, k) ==
  IF k > Len(PRODUCT_INDICATORS) THEN compound_name
  ELSE ReturnOrGoOn(compound_name, compound_lower, k,
                    ExtractWith(compound_lower, PRODUCT_INDICATORS[k]))

\* extract_species_from_compound_name(compound_name)
ExtractSpecies(compound_name) ==
  ExtractFrom(compound_name, Strip(Lower(compound_name)), 1)

\* species_name
SpeciesName(animal, animal_lower, extracted_species) ==
  IF extracted_species # animal THEN Lower(extracted_species) ELSE animal_lower

\* normalized, after the conversion of a plural to the singular
SingularOf(normalized) ==
  IF /\ EndsWith(normalized, <<"s">>)
     /\ SubSeq(Lower(normalized), 1, Len(normalized) - 1) \in KNOWN_SPECIES
    THEN SubSeq(normalized, 1, Len(normalized) - 1)
    ELSE normalized

\* the loop body after the call of extract_species_from_compound_name
KeptEntry(animal, animal_lower, extracted_species) ==
  IF SpeciesName(animal, animal_lower, extracted_species) \notin KNOWN_SPECIES
    THEN << >>
    ELSE <<SingularOf(Title(extracted_species))>>

\* the loop body after animal_lower is set
FilteredEntryOf(animal, animal_lower) ==
  IF animal_lower \in Elems(GENERIC_TERMS) THEN << >>
  ELSE KeptEntry(animal, animal_lower, ExtractSpecies(animal))

\* the body of the loop of filter_species_from_products for one entry: what
\* it appends to filtered_animals
FilteredEntry(animal) == FilteredEntryOf(animal, Strip(Lower(animal)))

\* filtered_animals after the loop
RECURSIVE FilteredAnimals(_)
FilteredAnimals(animals) ==
  IF animals = << >> THEN << >>
  ELSE FilteredEntry(Head(animals)) \o FilteredAnimals(Tail(animals))

\* filter_species_from_products(animals)
FilterSpeciesFromProducts(animals) ==
  IF animals = << >> THEN << >> ELSE ListOf(Elems(FilteredAnimals(animals)))

\* the body of the loop of clean_extracted_animals for one species: what it
\* appends to cleaned
CleanedEntry(animal) ==
  LET cleaned_animal == Title(Join(<<" ">>, SplitWords(animal)))
  IN IF cleaned_animal # << >> /\ Len(cleaned_animal) > 1 THEN <<cleaned_animal>>
     ELSE << >>

RECURSIVE CleanedList(_)
CleanedList(species_only) ==
  IF species_only = << >> THEN << >>
  ELSE CleanedEntry(Head(species_only)) \o CleanedList(Tail(species_only))

\* clean_extracted_animals(animals)
CleanExtractedAnimals(animals) ==
  IF animals = << >> THEN << >> ELSE CleanedList(FilterSpeciesFromProducts(animals))

(***************************************************************************)
(* ExcelParser._detect_animals                                             *)
(***************************************************************************)
\* found_items after the three passes
XlFoundItems(desc_lower) ==
  {XL_PRODUCTS[i] : i \in TermsIn(XL_PRODUCTS, XL_PRODUCTS_BY_CHAR, desc_lower)}
  \cup {Composite(m[1], m[2]) :
          m \in CompositeFindAll(XL_ANIMALS, XL_ANIMALS_BY_CHAR,
                                 XL_PRODUCTS, XL_PRODUCTS_BY_CHAR, desc_lower, 1)}
  \cup {MapGetOr(XL_NORMALIZATION_MAP, animal, Capitalize(animal)) :
        animal \in {XL_ANIMALS_BIRDS[i] :
                      i \in WordSearchAll(XL_ANIMALS_BIRDS,
                                          XL_ANIMALS_BIRDS_BY_CHAR, desc_lower)}}

\* the labels of a list of found items
XlLabels(items) ==
  [i \in 1..Len(items) |->
     MapGetOr(XL_NORMALIZATION_MAP, items[i], Title(items[i]))]

\* final_items: the label of every found item
XlFinalItems(found_items) == XlLabels(ListOf(found_items))

\* XlSortedLabels with set() left out: sorted(final_items)
XlSortedLabelsNoSet(final_items) == Sorted(final_items)

\* sorted(list(set(final_items)))
XlSortedLabels(final_items) == Sorted(ListOf(Elems(final_items)))

(***************************************************************************)
(* Narratives                                                              *)
(***************************************************************************)
\* the words narratives are made of
Vocabulary ==
  <<
    <<"l","e","o","p","a","r","d">>,
    <<"l","e","o","p","a","r","d","s">>,
    <<"s","k","i","n","s">>,
    <<"e","l","e","p","h","a","n","t">>,
    <<"t","u","s","k","s">>,
    <<"i","v","o","r","y">>,
    <<"T","u","s","k","e","r">>,
    <<"s","e","i","z","e","d">>,
    <<"t","h","e">>,
    <<".">>,
    <<";">>
  >>

\* the longest narrative, in words
MaxWords == 3

\* a punctuation mark is written right after the word before it, a word
\* after one space
RECURSIVE Render(_)
Render(ws) ==
  IF ws = << >> THEN << >>
  ELSE LET n == Len(ws)
           w == Vocabulary[ws[n]]
           front == Render(SubSeq(ws, 1, n - 1))
       IN IF front = << >> \/ ~IsWordChar(w[1]) THEN front \o w
          ELSE front \o <<" ">> \o w

\* narratives of more words than MaxWords
ExampleNarratives ==
  {
    \* 'A sloth bear ran. Seized sloth.bear seized'
    <<"A"," ","s","l","o","t","h"," ","b","e","a","r"," ","r","a","n","."," ","S","e","i","z","e","d"," ","s","l","o","t","h",".","b","e","a","r"," ","s","e","i","z","e","d">>,
    \* 'leopard killed for its skin'
    <<"l","e","o","p","a","r","d"," ","k","i","l","l","e","d"," ","f","o","r"," ","i","t","s"," ","s","k","i","n">>,
    \* 'leopard was killed for its skin'
    <<"l","e","o","p","a","r","d"," ","w","a","s"," ","k","i","l","l","e","d"," ","f","o","r"," ","i","t","s"," ","s","k","i","n">>,
    \* 'stray skin seized'
    <<"s","t","r","a","y"," ","s","k","i","n"," ","s","e","i","z","e","d">>,
    \* 'A tiger ran!\nThe sloth bear hid'
    <<"A"," ","t","i","g","e","r"," ","r","a","n","!","\n","T","h","e"," ","s","l","o","t","h"," ","b","e","a","r"," ","h","i","d">>
  }

Narratives ==
  {Render(ws) : ws \in UNION {[1..n -> 1..Len(Vocabulary)] : n \in 0..MaxWords}}
    \cup ExampleNarratives

Descriptions == {PyNone} \cup {PyStr(s) : s \in Narratives}

(***************************************************************************)
(* Entries of extracted-animal lists                                       *)
(***************************************************************************)
\* s.upper()
Upper(s) == [i \in 1..Len(s) |-> UpperChar[s[i]]]

\* an entry is an optional qualifier, a head word and an optional product
\* word; << >> stands for a part that is left out
EntryQualifiers == << << >>, <<"s","n","o","w">> >>

EntryHeads ==
  <<
    <<"t","i","g","e","r">>,
    <<"t","i","g","e","r","s">>,
    <<"l","e","o","p","a","r","d">>,
    <<"e","l","e","p","h","a","n","t">>,
    <<"p","a","n","g","o","l","i","n">>,
    <<"r","h","i","n","o">>,
    <<"b","e","a","r">>,
    <<"a","n","i","m","a","l">>,
    <<"c","a","r">>,
    <<"o","x">>
  >>

EntryProducts ==
  <<
    << >>,
    <<"s","k","i","n">>,
    <<"t","u","s","k","s">>,
    <<"s","c","a","l","e","s">>,
    <<"h","o","r","n">>,
    <<"b","i","l","e">>
  >>

\* the words of an entry joined by one space
EntryText(q, h, p) ==
  Join(<<" ">>, SelectSeq(<<EntryQualifiers[q], EntryHeads[h], EntryProducts[p]>>,
                          LAMBDA w : w # << >>))

\* every entry in lower case, in upper case and in title case
Entries ==
  UNION {{EntryText(q, h, p), Upper(EntryText(q, h, p)), Title(EntryText(q, h, p))} :
           q \in 1..Len(EntryQualifiers), h \in 1..Len(EntryHeads),
           p \in 1..Len(EntryProducts)}

\* the entries that lists of several entries are made of
ListEntries ==
  {EntryText(1, 1, 1), EntryText(1, 2, 1), Upper(EntryText(1, 1, 1)),
   EntryText(1, 1, 2), EntryText(1, 3, 2), EntryText(1, 4, 3),
   <<" ">> \o EntryText(1, 1, 1)}

\* the longest list of several entries
MaxAnimals == 2

\* the lists of test_filter_species_from_products that mix bare species
\* names with compounds
ExampleLists ==
  {<< <<"l","e","o","p","a","r","d"," ","s","k","i","n">>,
      <<"t","i","g","e","r">>,
      <<"e","l","e","p","h","a","n","t"," ","t","u","s","k","s">> >>,
   << <<"p","a","n","g","o","l","i","n"," ","s","c","a","l","e","s">>,
      <<"b","e","a","r">>,
      <<"s","n","a","k","e">> >>}

AnimalLists ==
  {<<e>> : e \in Entries}
  \cup UNION {[1..n -> ListEntries] : n \in 0..MaxAnimals}
  \cup ExampleLists

(***************************************************************************)
(* is_wildlife_product (filter_utils.py)                                   *)
(***************************************************************************)
\* the alternatives of the group of the first pattern of product_patterns
PRODUCT_PATTERN_WORDS ==
  <<
    <<"s","k","i","n">>,
    <<"s","k","i","n","s">>,
    <<"h","i","d","e">>,
    <<"h","i","d","e","s">>,
    <<"s","c","a","l","e">>,
    <<"s","c","a","l","e","s">>,
    <<"h","o","r","n">>,
    <<"h","o","r","n","s">>,
    <<"t","u","s","k">>,
    <<"t","u","s","k","s">>,
    <<"t","o","o","t","h">>,
    <<"t","e","e","t","h">>,
    <<"b","o","n","e">>,
    <<"b","o","n","e","s">>,
    <<"m","e","a","t">>,
    <<"f","u","r">>,
    <<"l","e","a","t","h","e","r">>,
    <<"i","v","o","r","y">>,
    <<"c","l","a","w">>,
    <<"c","l","a","w","s">>,
    <<"t","a","i","l">>,
    <<"t","a","i","l","s">>,
    <<"f","e","a","t","h","e","r">>,
    <<"f","e","a","t","h","e","r","s">>,
    <<"e","g","g">>,
    <<"e","g","g","s">>,
    <<"s","h","e","l","l">>,
    <<"s","h","e","l","l","s">>
  >>

\* the alternatives of the group of the second pattern, "x?" written out as
\* the alternative without x and the one with it
PRODUCT_PATTERN_HEADS ==
  <<
    <<"s","k","i","n">>,
    <<"s","c","a","l","e","s">>,
    <<"h","o","r","n">>,
    <<"i","v","o","r","y">>,
    <<"l","e","a","t","h","e","r">>,
    <<"f","u","r">>,
    <<"b","o","n","e">>,
    <<"b","o","n","e","s">>,
    <<"t","u","s","k">>,
    <<"t","u","s","k","s">>,
    <<"c","l","a","w">>,
    <<"c","l","a","w","s">>,
    <<"t","a","i","l">>,
    <<"t","a","i","l","s">>,
    <<"f","e","a","t","h","e","r">>,
    <<"f","e","a","t","h","e","r","s">>,
    <<"e","g","g">>,
    <<"e","g","g","s">>,
    <<"s","h","e","l","l">>,
    <<"s","h","e","l","l","s">>
  >>

\* text[a..b-1] is a non-empty run of characters of class \w
IsWordRun(text, a, b) == a < b /\ \A k \in a..(b - 1) : IsWordChar(text[k])

\* text[a..b-1] is a non-empty run of characters of class \s
IsSpaceRun(text, a, b) == a < b /\ \A k \in a..(b - 1) : IsSpace(text[k])

\* text[a..b-1] is a run, possibly empty, of characters "." matches
IsDotRun(text, a, b) == \A k \in a..(b - 1) : text[k] # "\n"

\* one of terms occurs in text at index pos and ends at a word boundary
TermThenBoundary(terms, text, pos) ==
  \E i \in 1..Len(terms) :
    OccursAt(terms[i], text, pos) /\ WordBoundary(text, pos + Len(terms[i]))

\* re.search(r'\b\w+\s+(skin|...|shells)\b', text) finds a match
SearchWordThenProduct(text) ==
  \E p \in 1..Len(text) :
    /\ WordBoundary(text, p)
    /\ \E e1 \in (p + 1)..Len(text) :
         /\ IsWordRun(text, p, e1)
         /\ \E e2 \in (e1 + 1)..Len(text) :
              IsSpaceRun(text, e1, e2) /\ TermThenBoundary(PRODUCT_PATTERN_WORDS, text, e2)

\* a match of \b\w+\b starts at index q of text
WordAt(text, q) ==
  /\ WordBoundary(text, q)
  /\ \E r \in (q + 1)..(Len(text) + 1) : IsWordRun(text, q, r) /\ WordBoundary(text, r)

\* the rest ".*\b\w+\b" of the second pattern matches from index e on
WordLaterOn(text, e) ==
  \E q \in e..Len(text) : IsDotRun(text, e, q) /\ WordAt(text, q)

\* re.search(r'\b(skin|...|shells?)\b.*\b\w+\b', text) finds a match
SearchProductThenWord(text) ==
  \E p \in 1..Len(text) :
    /\ WordBoundary(text, p)
    /\ \E i \in 1..Len(PRODUCT_PATTERN_HEADS) :
         /\ OccursAt(PRODUCT_PATTERN_HEADS[i], text, p)
         /\ WordBoundary(text, p + Len(PRODUCT_PATTERN_HEADS[i]))
         /\ WordLaterOn(text, p + Len(PRODUCT_PATTERN_HEADS[i]))

\* the loop over product_patterns on text_lower
MatchesProductPattern(text_lower) ==
  SearchWordThenProduct(text_lower) \/ SearchProductThenWord(text_lower)

(***************************************************************************)
(* normalize_animal_name and normalize_location_name (ai/utils.py)         *)
(***************************************************************************)
\* mapping of normalize_animal_name, in the order of its keys
ANIMAL_NAME_MAPPING ==
  <<
    <<<<"t","u","r","t","l","e">>, <<"T","u","r","t","l","e","s">>>>,
    <<<<"t","u","r","t","l","e","s">>, <<"T","u","r","t","l","e","s">>>>,
    <<<<"s","e","a"," ","t","u","r","t","l","e">>, <<"T","u","r","t","l","e","s">>>>,
    <<<<"s","e","a"," ","t","u","r","t","l","e","s">>, <<"T","u","r","t","l","e","s">>>>,
    <<<<"t","o","r","t","o","i","s","e">>, <<"T","u","r","t","l","e","s">>>>,
    <<<<"t","o","r","t","o","i","s","e","s">>, <<"T","u","r","t","l","e","s">>>>,
    <<<<"i","n","d","i","a","n"," ","f","l","a","p","s","h","e","l","l"," ","t","u","r","t","l","e">>, <<"T","u","r","t","l","e","s">>>>,
    <<<<"s","o","f","t","s","h","e","l","l"," ","t","u","r","t","l","e">>, <<"T","u","r","t","l","e","s">>>>,
    <<<<"e","l","e","p","h","a","n","t">>, <<"E","l","e","p","h","a","n","t","s">>>>,
    <<<<"e","l","e","p","h","a","n","t","s">>, <<"E","l","e","p","h","a","n","t","s">>>>,
    <<<<"a","s","i","a","n"," ","e","l","e","p","h","a","n","t">>, <<"E","l","e","p","h","a","n","t","s">>>>,
    <<<<"t","u","s","k","e","r">>, <<"E","l","e","p","h","a","n","t","s">>>>,
    <<<<"l","e","o","p","a","r","d">>, <<"L","e","o","p","a","r","d","s">>>>,
    <<<<"l","e","o","p","a","r","d","s">>, <<"L","e","o","p","a","r","d","s">>>>,
    <<<<"l","e","o","p","a","r","d"," ","s","k","i","n">>, <<"L","e","o","p","a","r","d"," ","S","k","i","n">>>>,
    <<<<"p","a","n","g","o","l","i","n">>, <<"P","a","n","g","o","l","i","n","s">>>>,
    <<<<"p","a","n","g","o","l","i","n","s">>, <<"P","a","n","g","o","l","i","n","s">>>>,
    <<<<"p","a","n","g","o","l","i","n"," ","s","c","a","l","e">>, <<"P","a","n","g","o","l","i","n"," ","S","c","a","l","e","s">>>>,
    <<<<"p","a","n","g","o","l","i","n"," ","s","c","a","l","e","s">>, <<"P","a","n","g","o","l","i","n"," ","S","c","a","l","e","s">>>>,
    <<<<"s","c","a","l","e","s">>, <<"P","a","n","g","o","l","i","n"," ","S","c","a","l","e","s">>>>,
    <<<<"t","i","g","e","r">>, <<"T","i","g","e","r","s">>>>,
    <<<<"t","i","g","e","r","s">>, <<"T","i","g","e","r","s">>>>,
    <<<<"r","o","y","a","l"," ","b","e","n","g","a","l"," ","t","i","g","e","r">>, <<"T","i","g","e","r","s">>>>,
    <<<<"i","v","o","r","y">>, <<"I","v","o","r","y">>>>,
    <<<<"t","u","s","k">>, <<"I","v","o","r","y">>>>,
    <<<<"t","u","s","k","s">>, <<"I","v","o","r","y">>>>,
    <<<<"d","e","e","r">>, <<"D","e","e","r">>>>,
    <<<<"s","p","o","t","t","e","d"," ","d","e","e","r">>, <<"D","e","e","r">>>>,
    <<<<"b","a","r","k","i","n","g"," ","d","e","e","r">>, <<"D","e","e","r">>>>,
    <<<<"s","n","a","k","e">>, <<"S","n","a","k","e","s">>>>,
    <<<<"c","o","b","r","a">>, <<"S","n","a","k","e","s">>>>,
    <<<<"p","y","t","h","o","n">>, <<"S","n","a","k","e","s">>>>,
    <<<<"m","y","n","a">>, <<"B","i","r","d","s">>>>,
    <<<<"p","a","r","r","o","t">>, <<"B","i","r","d","s">>>>,
    <<<<"p","a","r","a","k","e","e","t">>, <<"B","i","r","d","s">>>>
  >>

TurtlesLabel == <<"T","u","r","t","l","e","s">>
ElephantsLabel == <<"E","l","e","p","h","a","n","t","s">>
PangolinsLabel == <<"P","a","n","g","o","l","i","n","s">>
LeopardsLabel == <<"L","e","o","p","a","r","d","s">>
TigersLabel == <<"T","i","g","e","r","s">>

\* the partial matches for broad categories, tried in this order; default
\* when none applies
PartialMatch(name_lower, default) ==
  IF \/ Contains(name_lower, <<"t","u","r","t","l","e">>)
     \/ Contains(name_lower, <<"t","o","r","t","o","i","s","e">>)
    THEN TurtlesLabel
  ELSE IF /\ Contains(name_lower, <<"e","l","e","p","h","a","n","t">>)
          /\ ~Contains(name_lower, <<"s","k","i","n">>)
          /\ ~Contains(name_lower, <<"i","v","o","r","y">>)
          /\ ~Contains(name_lower, <<"t","u","s","k">>)
    THEN ElephantsLabel
  ELSE IF /\ Contains(name_lower, <<"p","a","n","g","o","l","i","n">>)
          /\ ~Contains(name_lower, <<"s","c","a","l","e">>)
          /\ ~Contains(name_lower, <<"s","k","i","n">>)
    THEN PangolinsLabel
  ELSE IF /\ Contains(name_lower, <<"l","e","o","p","a","r","d">>)
          /\ ~Contains(name_lower, <<"s","k","i","n">>)
    THEN LeopardsLabel
  ELSE IF /\ Contains(name_lower, <<"t","i","g","e","r">>)
          /\ ~Contains(name_lower, <<"s","k","i","n">>)
    THEN TigersLabel
  ELSE default

\* normalize_animal_name(name)
NormalizedAnimal(name) ==
  IF name = << >> THEN name
  ELSE MapGetOr(ANIMAL_NAME_MAPPING, Strip(Lower(name)),
                PartialMatch(Strip(Lower(name)), Title(name)))

ODISHA_DISTRICTS ==
  <<
    <<"A","n","g","u","l">>,
    <<"B","a","l","a","n","g","i","r">>,
    <<"B","a","l","a","s","o","r","e">>,
    <<"B","a","r","g","a","r","h">>,
    <<"B","h","a","d","r","a","k">>,
    <<"B","o","u","d","h">>,
    <<"C","u","t","t","a","c","k">>,
    <<"D","e","o","g","a","r","h">>,
    <<"D","h","e","n","k","a","n","a","l">>,
    <<"G","a","j","a","p","a","t","i">>,
    <<"G","a","n","j","a","m">>,
    <<"J","a","g","a","t","s","i","n","g","h","p","u","r">>,
    <<"J","a","j","p","u","r">>,
    <<"J","h","a","r","s","u","g","u","d","a">>,
    <<"K","a","l","a","h","a","n","d","i">>,
    <<"K","a","n","d","h","a","m","a","l">>,
    <<"K","e","n","d","r","a","p","a","r","a">>,
    <<"K","e","n","d","u","j","h","a","r">>,
    <<"K","h","o","r","d","h","a">>,
    <<"K","o","r","a","p","u","t">>,
    <<"M","a","l","k","a","n","g","i","r","i">>,
    <<"M","a","y","u","r","b","h","a","n","j">>,
    <<"N","a","b","a","r","a","n","g","p","u","r">>,
    <<"N","a","y","a","g","a","r","h">>,
    <<"N","u","a","p","a","d","a">>,
    <<"P","u","r","i">>,
    <<"R","a","y","a","g","a","d","a">>,
    <<"S","a","m","b","a","l","p","u","r">>,
    <<"S","u","b","a","r","n","a","p","u","r">>,
    <<"S","u","n","d","a","r","g","a","r","h">>
  >>

\* mapping of normalize_location_name, in the order of its keys
LOCATION_MAPPING ==
  <<
    <<<<"b","a","l","e","s","w","a","r">>, <<"B","a","l","a","s","o","r","e">>>>,
    <<<<"k","e","o","n","j","h","a","r">>, <<"K","e","n","d","u","j","h","a","r">>>>,
    <<<<"s","o","n","e","p","u","r">>, <<"S","u","b","a","r","n","a","p","u","r">>>>,
    <<<<"s","u","b","a","r","n","a","p","u","r">>, <<"S","u","b","a","r","n","a","p","u","r">>>>,
    <<<<"b","h","u","b","a","n","e","s","w","a","r">>, <<"K","h","o","r","d","h","a">>>>,
    <<<<"b","a","r","i","p","a","d","a">>, <<"M","a","y","u","r","b","h","a","n","j">>>>,
    <<<<"r","o","u","r","k","e","l","a">>, <<"S","u","n","d","a","r","g","a","r","h">>>>,
    <<<<"b","e","r","h","a","m","p","u","r">>, <<"G","a","n","j","a","m">>>>,
    <<<<"b","r","a","h","m","a","p","u","r">>, <<"G","a","n","j","a","m">>>>,
    <<<<"s","i","m","i","l","i","p","a","l">>, <<"M","a","y","u","r","b","h","a","n","j">>>>,
    <<<<"b","h","i","t","a","r","k","a","n","i","k","a">>, <<"K","e","n","d","r","a","p","a","r","a">>>>,
    <<<<"c","h","i","l","i","k","a">>, <<"K","h","o","r","d","h","a">>>>,
    <<<<"s","a","t","k","o","s","i","a">>, <<"A","n","g","u","l">>>>,
    <<<<"n","a","b","r","a","n","g","p","u","r">>, <<"N","a","b","a","r","a","n","g","p","u","r">>>>,
    <<<<"r","a","i","g","a","d","a">>, <<"R","a","y","a","g","a","d","a">>>>,
    <<<<"h","i","r","a","k","u","d">>, <<"S","a","m","b","a","l","p","u","r">>>>,
    <<<<"d","h","e","n","k","j","a","n","a","l">>, <<"D","h","e","n","k","a","n","a","l">>>>
  >>

\* the positions of the districts whose lower-cased name is name_lower
DistrictsEqual(name_lower) ==
  {i \in 1..Len(ODISHA_DISTRICTS) : Lower(ODISHA_DISTRICTS[i]) = name_lower}

\* the positions of the districts whose lower-cased name is in name_lower
DistrictsIn(name_lower) ==
  {i \in 1..Len(ODISHA_DISTRICTS) : Contains(name_lower, Lower(ODISHA_DISTRICTS[i]))}

\* the positions of the keys of mapping that are in name_lower
AliasesIn(name_lower) ==
  {i \in 1..Len(LOCATION_MAPPING) : Contains(name_lower, LOCATION_MAPPING[i][1])}

\* what a loop over ODISHA_DISTRICTS returns when the districts at the
\* positions found pass its test: the first one, and default when none does
DistrictOr(found, default) ==
  IF found # {} THEN ODISHA_DISTRICTS[Min(found)] ELSE default

\* the loop over mapping.items() returning the key that passed its test
AliasKeyOr(found, default) ==
  IF found # {} THEN Title(LOCATION_MAPPING[Min(found)][1]) ELSE default

\* the same for the loop over mapping.items()
AliasOr(found, default) ==
  IF found # {} THEN LOCATION_MAPPING[Min(found)][2] ELSE default

\* SubstringMatch with its two loops in the other order: the aliases first
SubstringMatchAliasFirst(name_lower, default) ==
  AliasOr(AliasesIn(name_lower), DistrictOr(DistrictsIn(name_lower), default))

\* the substring loops: a district in name_lower, then an alias in it
SubstringMatch(name_lower, default) ==
  DistrictOr(DistrictsIn(name_lower), AliasOr(AliasesIn(name_lower), default))

\* normalize_location_name after name_lower is set
NormalizedLocationOf(name, name_lower) ==
  MapGetOr(LOCATION_MAPPING, name_lower,
           DistrictOr(DistrictsEqual(name_lower),
                      SubstringMatch(name_lower, Title(name))))

\* normalize_location_name(name)
NormalizedLocation(name) ==
  IF name = << >> THEN name ELSE NormalizedLocationOf(name, Strip(Lower(name)))

(***************************************************************************)
(* Names handed to the normalizers                                         *)
(***************************************************************************)
\* the words names are made of
NameWords ==
  <<
    <<"R","o","u","r","k","e","l","a">>,
    <<"P","u","r","i">>,
    <<"A","n","g","u","l">>,
    <<"k","e","o","n","j","h","a","r">>,
    <<"S","u","b","a","r","n","a","p","u","r">>,
    <<"R","a","n","d","o","m">>,
    <<"C","i","t","y">>,
    <<"N","e","a","r">>,
    <<"D","i","s","t","r","i","c","t">>,
    <<"t","i","g","e","r">>,
    <<"T","u","s","k","e","r">>,
    <<"l","e","o","p","a","r","d">>,
    <<"s","k","i","n">>,
    <<"t","u","r","t","l","e">>,
    <<"s","c","a","l","e","s">>,
    <<"b","e","n","g","a","l">>
  >>

\* the longest name, in words
MaxNameWords == 2

\* the words at the positions ws joined by one space
NameOf(ws) == Join(<<" ">>, [i \in 1..Len(ws) |-> NameWords[ws[i]]])

Phrases ==
  {NameOf(ws) : ws \in UNION {[1..n -> 1..Len(NameWords)] : n \in 0..MaxNameWords}}

\* the first components of the pairs of a mapping
Keys(map) == {map[i][1] : i \in 1..Len(map)}

\* the phrases as written, in lower case and with spaces around them, and
\* every key and every district as written and in title case
Names ==
  Phrases
  \cup {Lower(ph) : ph \in Phrases}
  \cup {<<" ">> \o ph \o <<" ">> : ph \in Phrases}
  \cup Keys(NORMALIZATION_MAP) \cup {Title(k) : k \in Keys(NORMALIZATION_MAP)}
  \cup Keys(ANIMAL_NAME_MAPPING) \cup {Title(k) : k \in Keys(ANIMAL_NAME_MAPPING)}
  \cup Keys(LOCATION_MAPPING) \cup {Title(k) : k \in Keys(LOCATION_MAPPING)}
  \cup Elems(ODISHA_DISTRICTS)

(***************************************************************************)
(* State                                                                   *)
(***************************************************************************)
VARIABLES
  description,       \* the argument of the detector call
  pc,                \* "ready", then the name of the detector that has returned
  text_to_scan,      \* locals of AnimalDetector.detect at its return
  raw_candidates,
  sorted_candidates,
  unique_items,
  found_items,       \* local of ExcelParser._detect_animals at its return
  result_list,       \* the labels joined into the returned string
  result,            \* the value the detector returned
  animals,           \* the list the filter functions are called on
  filter_pc,         \* "ready", then the name of the filter function that has returned
  compound_name,     \* the argument of extract_species_from_compound_name
  extracted_species, \* the value it returned
  species_only,      \* the value filter_species_from_products returned
  cleaned,           \* the value clean_extracted_animals returned
  product_text,      \* the argument of is_wildlife_product
  is_product,        \* the value it returned
  raw_name,          \* the argument of a normalizer
  normalize_pc,      \* "ready", then the name of the normalizer that has returned
  normalized,        \* the value it returned
  narratives,        \* the argument of each concurrent detect call
  calls,             \* the locals of each concurrent detect call
  lexicon,           \* the attributes of the AnimalDetector the calls share
  collection,        \* the stored incidents, by _id
  incidents,         \* normalize_incidents: the incidents it fetched
  cursor,            \* the position in incidents of the next one of its loop
  updated_count,     \* its count of update_one calls
  run_pc,            \* "idle", or "loop" while it runs
  runs               \* the number of runs that are complete

detectorVars == <<description, pc, text_to_scan, raw_candidates, sorted_candidates,
                  unique_items, found_items, result_list, result>>

filterVars == <<animals, filter_pc, compound_name, extracted_species,
                species_only, cleaned, product_text, is_product>>

normalizeVars == <<raw_name, normalize_pc, normalized>>

concurrentVars == <<narratives, calls, lexicon>>

incidentVars == <<collection, incidents, cursor, updated_count, run_pc, runs>>

vars == <<detectorVars, filterVars, normalizeVars, concurrentVars, incidentVars>>

\* no detector call is under way
DetectorIdle ==
  /\ pc = "ready"
  /\ text_to_scan = << >>
  /\ raw_candidates = {}
  /\ sorted_candidates = << >>
  /\ unique_items = {}
  /\ found_items = {}
  /\ result_list = << >>
  /\ result = PyNone

\* no filter call is under way
FilterIdle ==
  /\ filter_pc = "ready"
  /\ compound_name = << >>
  /\ extracted_species = << >>
  /\ species_only = << >>
  /\ cleaned = << >>
  /\ product_text = << >>
  /\ is_product = FALSE

\* no normalizer call is under way
NormalizeIdle ==
  /\ normalize_pc = "ready"
  /\ normalized = << >>

\* no detector is shared between calls
ConcurrentIdle ==
  /\ narratives = << >>
  /\ calls = << >>
  /\ lexicon = << >>

\* no collection of incidents is connected
IncidentsIdle ==
  /\ collection = << >>
  /\ incidents = << >>
  /\ cursor = 0
  /\ updated_count = 0
  /\ run_pc = "idle"
  /\ runs = 0

\* one narrative handed to a detector
Init ==
  /\ description \in Descriptions
  /\ DetectorIdle
  /\ animals = << >>
  /\ FilterIdle
  /\ raw_name = << >>
  /\ NormalizeIdle
  /\ ConcurrentIdle
  /\ IncidentsIdle

\* AnimalDetector.detect(description)
Detect ==
  /\ pc = "ready"
  /\ pc' = "detect"
  /\ IF Falsy(description)
       THEN /\ result' = PyNone
            /\ UNCHANGED <<text_to_scan, raw_candidates, sorted_candidates,
                           unique_items, result_list>>
       ELSE IF NoStrMethods(description)
       THEN /\ result' = PyRaised
            /\ UNCHANGED <<text_to_scan, raw_candidates, sorted_candidates,
                           unique_items, result_list>>
       ELSE /\ text_to_scan' = TextToScan(description.str)
            /\ raw_candidates' = RawCandidates(text_to_scan')
            /\ sorted_candidates' \in
                 SortedCandidates(VerifiedCandidates(raw_candidates', text_to_scan'))
            /\ unique_items' = UniqueItems(sorted_candidates', {})
            /\ result_list' = ResultList(FinalOutput(unique_items'))
            /\ result' = PyStr(Join(CommaSpace, result_list'))
  /\ UNCHANGED <<description, found_items, filterVars, normalizeVars, concurrentVars, incidentVars>>

\* ExcelParser._detect_animals(description)
DetectAnimals ==
  /\ pc = "ready"
  /\ pc' = "_detect_animals"
  /\ IF Falsy(description)
       THEN /\ result' = PyNone
            /\ UNCHANGED <<found_items, result_list>>
       ELSE IF NoStrMethods(description)
       THEN /\ result' = PyRaised
            /\ UNCHANGED <<found_items, result_list>>
       ELSE /\ found_items' = XlFoundItems(Lower(description.str))
            /\ result_list' = XlSortedLabels(XlFinalItems(found_items'))
            /\ result' = IF found_items' # {}
                           THEN PyStr(Join(CommaSpace, result_list'))
                           ELSE PyNone
  /\ UNCHANGED <<description, text_to_scan, raw_candidates, sorted_candidates,
                 unique_items, filterVars, normalizeVars, concurrentVars, incidentVars>>

Next == Detect \/ DetectAnimals

Spec == Init /\ [][Next]_vars

\* one list of extracted animals handed to a filter function
InitFilter ==
  /\ description = PyNone
  /\ DetectorIdle
  /\ animals \in AnimalLists
  /\ FilterIdle
  /\ raw_name = << >>
  /\ NormalizeIdle
  /\ ConcurrentIdle
  /\ IncidentsIdle

\* extract_species_from_compound_name(animals[i])
ExtractSpeciesFromCompoundName ==
  /\ filter_pc = "ready"
  /\ \E i \in 1..Len(animals) :
       /\ compound_name' = animals[i]
       /\ extracted_species' = ExtractSpecies(animals[i])
  /\ filter_pc' = "extract_species_from_compound_name"
  /\ UNCHANGED <<animals, species_only, cleaned, product_text, is_product,
                 detectorVars, normalizeVars, concurrentVars, incidentVars>>

\* filter_species_from_products(animals)
FilterSpecies ==
  /\ filter_pc = "ready"
  /\ species_only' = FilterSpeciesFromProducts(animals)
  /\ filter_pc' = "filter_species_from_products"
  /\ UNCHANGED <<animals, compound_name, extracted_species, cleaned, product_text,
               is_product, detectorVars, normalizeVars, concurrentVars, incidentVars>>

\* clean_extracted_animals(animals)
CleanAnimals ==
  /\ filter_pc = "ready"
  /\ species_only' = FilterSpeciesFromProducts(animals)
  /\ cleaned' = CleanExtractedAnimals(animals)
  /\ filter_pc' = "clean_extracted_animals"
  /\ UNCHANGED <<animals, compound_name, extracted_species, product_text, is_product,
                 detectorVars, normalizeVars, concurrentVars, incidentVars>>

\* is_wildlife_product(animals[i])
IsWildlifeProduct ==
  /\ filter_pc = "ready"
  /\ \E i \in 1..Len(animals) :
       /\ product_text' = animals[i]
       /\ is_product' = MatchesProductPattern(Lower(animals[i]))
  /\ filter_pc' = "is_wildlife_product"
  /\ UNCHANGED <<animals, compound_name, extracted_species, species_only, cleaned,
                 detectorVars, normalizeVars, concurrentVars, incidentVars>>

NextFilter ==
  ExtractSpeciesFromCompoundName \/ FilterSpecies \/ CleanAnimals \/ IsWildlifeProduct

SpecFilter == InitFilter /\ [][NextFilter]_vars

\* one name handed to a normalizer
InitNormalize ==
  /\ description = PyNone
  /\ DetectorIdle
  /\ animals = << >>
  /\ FilterIdle
  /\ raw_name \in Names
  /\ NormalizeIdle
  /\ ConcurrentIdle
  /\ IncidentsIdle

\* normalize_animal_name(raw_name)
NormalizeAnimalName ==
  /\ normalize_pc = "ready"
  /\ normalized' = NormalizedAnimal(raw_name)
  /\ normalize_pc' = "normalize_animal_name"
  /\ UNCHANGED <<raw_name, detectorVars, filterVars, concurrentVars, incidentVars>>

\* normalize_location_name(raw_name)
NormalizeLocationName ==
  /\ normalize_pc = "ready"
  /\ normalized' = NormalizedLocation(raw_name)
  /\ normalize_pc' = "normalize_location_name"
  /\ UNCHANGED <<raw_name, detectorVars, filterVars, concurrentVars, incidentVars>>

\* the mapping step of AnimalDetector.detect for the kept item raw_name
CanonicalLabel ==
  /\ normalize_pc = "ready"
  /\ normalized' = Canonical(raw_name)
  /\ normalize_pc' = "canonical"
  /\ UNCHANGED <<raw_name, detectorVars, filterVars, concurrentVars, incidentVars>>

NextNormalize == NormalizeAnimalName \/ NormalizeLocationName \/ CanonicalLabel

SpecNormalize == InitNormalize /\ [][NextNormalize]_vars

(***************************************************************************)
(* Calls of detect that run concurrently on one AnimalDetector             *)
(***************************************************************************)
\* the number of calls under way
NumCalls == 2

Calls == 1..NumCalls

\* the narratives the concurrent calls are given, as words of Vocabulary:
\* 'leopard skins ivory', 'elephant. seized tusks', 'Tusker the skins'
SharedDescriptions ==
  {PyNone} \cup {PyStr(Render(ws)) : ws \in {<<1, 3, 6>>, <<4, 10, 8, 5>>, <<7, 9, 3>>}}

\* the attributes __init__ gives the detector
Lexicon ==
  [ANIMALS |-> ANIMALS, BIRDS |-> BIRDS, PRODUCTS |-> PRODUCTS,
   CONTEXT_SIGNALS |-> CONTEXT_SIGNALS, NORMALIZATION_MAP |-> NORMALIZATION_MAP]

\* the locals of a call that has not run a line yet
FreshLocals ==
  [pc |-> "start", text_to_scan |-> << >>, raw_candidates |-> {},
   verified_candidates |-> {}, sorted_candidates |-> << >>, unique_items |-> {},
   final_output |-> {}, result |-> PyNone]

\* the locals of the first call, whichever call asks
LocalsOfFirst(c) == calls[1]

\* the locals of call c: each call of detect has a frame of its own
LocalsOf(c) == calls[c]

\* lines 119-136: the guard, then text_to_scan
Scanned(locals, narrative) ==
  IF Falsy(narrative)
    THEN [locals EXCEPT !.pc = "returned", !.result = PyNone]
  ELSE IF NoStrMethods(narrative)
    THEN [locals EXCEPT !.pc = "returned", !.result = PyRaised]
  ELSE [locals EXCEPT !.pc = "scanned", !.text_to_scan = TextToScan(narrative.str)]

\* lines 138-156: the three passes that fill raw_candidates
Collected(locals) ==
  [locals EXCEPT !.pc = "collected",
                 !.raw_candidates = RawCandidates(locals.text_to_scan)]

\* lines 160-163: verified_candidates
Verified(locals) ==
  [locals EXCEPT !.pc = "verified",
                 !.verified_candidates =
                    VerifiedCandidates(locals.raw_candidates, locals.text_to_scan)]

\* line 166: sorted_candidates, one of the arrangements the sort can give
SortedAs(locals, sorted) ==
  [locals EXCEPT !.pc = "sorted", !.sorted_candidates = sorted]

\* lines 169-177: the walk that fills unique_items
Walked(locals) ==
  [locals EXCEPT !.pc = "walked",
                 !.unique_items = UniqueItems(locals.sorted_candidates, {})]

\* lines 181-186: final_output
Mapped(locals) ==
  [locals EXCEPT !.pc = "mapped", !.final_output = FinalOutput(locals.unique_items)]

\* lines 201-217: result_list and the returned string
Returned(locals) ==
  [locals EXCEPT !.pc = "returned",
                 !.result = PyStr(Join(CommaSpace, ResultList(locals.final_output)))]

\* call c moves on to new_locals; nothing of the detector is assigned
MoveOn(c, new_locals) ==
  /\ calls' = [calls EXCEPT ![c] = new_locals]
  /\ UNCHANGED <<narratives, lexicon, detectorVars, filterVars, normalizeVars,
                 incidentVars>>

\* NumCalls calls of detect on one detector, none of them started
InitConcurrent ==
  /\ description = PyNone
  /\ DetectorIdle
  /\ animals = << >>
  /\ FilterIdle
  /\ raw_name = << >>
  /\ NormalizeIdle
  /\ narratives \in [Calls -> SharedDescriptions]
  /\ calls = [c \in Calls |-> FreshLocals]
  /\ lexicon = Lexicon
  /\ IncidentsIdle

ScanStep ==
  \E c \in Calls :
    /\ LocalsOf(c).pc = "start"
    /\ MoveOn(c, Scanned(LocalsOf(c), narratives[c]))

CollectStep ==
  \E c \in Calls :
    /\ LocalsOf(c).pc = "scanned"
    /\ MoveOn(c, Collected(LocalsOf(c)))

VerifyStep ==
  \E c \in Calls :
    /\ LocalsOf(c).pc = "collected"
    /\ MoveOn(c, Verified(LocalsOf(c)))

SortStep ==
  \E c \in Calls :
    /\ LocalsOf(c).pc = "verified"
    /\ \E sorted \in SortedCandidates(LocalsOf(c).verified_candidates) :
         MoveOn(c, SortedAs(LocalsOf(c), sorted))

WalkStep ==
  \E c \in Calls :
    /\ LocalsOf(c).pc = "sorted"
    /\ MoveOn(c, Walked(LocalsOf(c)))

MapStep ==
  \E c \in Calls :
    /\ LocalsOf(c).pc = "walked"
    /\ MoveOn(c, Mapped(LocalsOf(c)))

ReturnStep ==
  \E c \in Calls :
    /\ LocalsOf(c).pc = "mapped"
    /\ MoveOn(c, Returned(LocalsOf(c)))

NextConcurrent ==
  \/ ScanStep
  \/ CollectStep
  \/ VerifyStep
  \/ SortStep
  \/ WalkStep
  \/ MapStep
  \/ ReturnStep

SpecConcurrent == InitConcurrent /\ [][NextConcurrent]_vars

(***************************************************************************)
(* normalize_incidents                                                     *)
(***************************************************************************)
\* norm appended to new_extracted unless it is in seen
AppendUnseen(new_extracted, norm) ==
  IF norm \in Elems(new_extracted) THEN new_extracted ELSE Append(new_extracted, norm)

\* new_extracted after the loop over extracted, from new_extracted on
RECURSIVE NewExtracted(_, _)
NewExtracted(extracted, new_extracted) ==
  IF extracted = << >> THEN new_extracted
  ELSE NewExtracted(Tail(extracted),
                    AppendUnseen(new_extracted, NormalizedAnimal(Head(extracted))))

\* the stored list kept whatever new_extracted is
NeverChanged(extracted, new_extracted) == extracted

\* the value of extracted_animals after the run: new_extracted when the
\* sorted lists differ
ChangedOr(extracted, new_extracted) ==
  IF Sorted(extracted) # Sorted(new_extracted) THEN new_extracted ELSE extracted

\* the value of extracted_animals after the run
UpdatedExtracted(extracted) ==
  IF extracted # << >> THEN ChangedOr(extracted, NewExtracted(extracted, << >>))
  ELSE extracted

\* the value of the field 'animals' after the run
UpdatedAnimals(main_animal) ==
  IF main_animal # << >> /\ NormalizedAnimal(main_animal) # main_animal
    THEN NormalizedAnimal(main_animal)
    ELSE main_animal

\* the value of the field 'location' after the run
UpdatedLocation(location) ==
  IF location # << >> /\ NormalizedLocation(location) # location
    THEN NormalizedLocation(location)
    ELSE location

\* the incident with the updates of the loop body set
UpdatedIncident(incident) ==
  [extracted_animals |-> UpdatedExtracted(incident.extracted_animals),
   animals |-> UpdatedAnimals(incident.animals),
   location |-> UpdatedLocation(incident.location)]

\* needs_update: one of the three fields is in updates
NeedsUpdate(incident) == UpdatedIncident(incident) # incident

\* the names stored in extracted_animals
ExtractedLists ==
  {<< >>,
   <<<<"t","i","g","e","r">>>>,
   <<<<"T","i","g","e","r","s">>>>,
   <<<<"t","i","g","e","r">>, <<"T","i","g","e","r","s">>>>,
   <<<<"T","i","g","e","r","s">>, <<"T","i","g","e","r","s">>>>,
   <<<<"s","e","a"," ","t","u","r","t","l","e">>, <<"t","i","g","e","r">>>>,
   <<<<" ","B","e","n","g","a","l"," ","t","i","g","e","r">>, <<"s","e","a"," ","t","u","r","t","l","e">>>>}

\* the fields 'animals' and 'location' of the stored incidents
MainAndLocation ==
  {<<<< >>, << >>>>, <<<<"t","i","g","e","r">>, <<"n","e","a","r"," ","R","o","u","r","k","e","l","a">>>>, <<<<"T","i","g","e","r","s">>, <<"S","u","n","d","a","r","g","a","r","h">>>>}

StoredIncidents ==
  {[extracted_animals |-> l, animals |-> ml[1], location |-> ml[2]] :
     l \in ExtractedLists, ml \in MainAndLocation}

\* the greatest number of incidents in the collection
MaxIncidents == 2

\* the number of runs of normalize_incidents
MaxRuns == 2

\* a collection of incidents, no run started
InitIncidents ==
  /\ description = PyNone
  /\ DetectorIdle
  /\ animals = << >>
  /\ FilterIdle
  /\ raw_name = << >>
  /\ NormalizeIdle
  /\ ConcurrentIdle
  /\ collection \in UNION {[1..n -> StoredIncidents] : n \in 0..MaxIncidents}
  /\ incidents = << >>
  /\ cursor = 0
  /\ updated_count = 0
  /\ run_pc = "idle"
  /\ runs = 0

\* lines 20-27: the incidents are fetched and the count is reset
StartRun ==
  /\ run_pc = "idle"
  /\ runs < MaxRuns
  /\ incidents' = collection
  /\ cursor' = 1
  /\ updated_count' = 0
  /\ run_pc' = "loop"
  /\ UNCHANGED <<collection, runs, detectorVars, filterVars, normalizeVars,
                 concurrentVars>>

\* lines 29-74: the body of the loop for the incident at cursor
ProcessIncident ==
  /\ run_pc = "loop"
  /\ cursor <= Len(incidents)
  /\ IF NeedsUpdate(incidents[cursor])
       THEN /\ collection' = [collection EXCEPT ![cursor] = UpdatedIncident(incidents[cursor])]
            /\ updated_count' = updated_count + 1
       ELSE UNCHANGED <<collection, updated_count>>
  /\ cursor' = cursor + 1
  /\ UNCHANGED <<incidents, run_pc, runs, detectorVars, filterVars, normalizeVars,
                 concurrentVars>>

\* lines 76-79: the loop is over
FinishRun ==
  /\ run_pc = "loop"
  /\ cursor > Len(incidents)
  /\ run_pc' = "idle"
  /\ runs' = runs + 1
  /\ UNCHANGED <<collection, incidents, cursor, updated_count, detectorVars,
                 filterVars, normalizeVars, concurrentVars>>

NextIncidents == StartRun \/ ProcessIncident \/ FinishRun

SpecIncidents == InitIncidents /\ [][NextIncidents]_vars

(***************************************************************************)
(* Vocabulary of the properties                                            *)
(***************************************************************************)
\* a is a case-insensitive substring of b
InsideIgnoringCase(a, b) == Contains(Lower(b), Lower(a))

\* a detector has returned
DetectorReturned == pc # "ready"

\* the narrative in lower case, for a str description
Narrative == Lower(description.str)

\* term occurs in text between word boundaries
WordOccurs(term, text) ==
  \E i \in 1..(Len(text) - Len(term) + 1) :
    /\ OccursAt(term, text, i)
    /\ WordBoundary(text, i)
    /\ WordBoundary(text, i + Len(term))

\* the mentions of animals and birds in text: <<index, term>>
AnimalMentions(text) ==
  UNION {{<<pos, ANIMALS_BIRDS[i]>> :
            i \in {k \in TermsAt(ANIMALS_BIRDS, ANIMALS_BIRDS_BY_CHAR, text, pos) :
                     /\ WordBoundary(text, pos)
                     /\ WordBoundary(text, pos + Len(ANIMALS_BIRDS[k]))}} :
         pos \in 1..Len(text)}

\* the product terms that follow, after one space, the term mentioned by m
ProductsRightAfter(text, m) ==
  {PRODUCTS[k] : k \in {j \in 1..Len(PRODUCTS) :
                          OccursAt(<<" ">> \o PRODUCTS[j], text, m[1] + Len(m[2]))}}

\* no term of any lexicon occurs in text
NoLexiconTerm(text) ==
  /\ ~AnyTermIn(ANIMALS_BIRDS, ANIMALS_BIRDS_BY_CHAR, text)
  /\ ~AnyTermIn(XL_ANIMALS_BIRDS, XL_ANIMALS_BIRDS_BY_CHAR, text)
  /\ ~AnyTermIn(PRODUCTS, PRODUCTS_BY_CHAR, text)
  /\ ~AnyTermIn(CONTEXT_SIGNALS, CONTEXT_SIGNALS_BY_CHAR, text)

Labels == Elems(result_list)

AsianElephant == <<"A","s","i","a","n"," ","E","l","e","p","h","a","n","t">>
ElephantTusks == <<"E","l","e","p","h","a","n","t"," ","T","u","s","k","s">>
Ivory == <<"I","v","o","r","y">>
LeopardSkinsRaw == <<"l","e","o","p","a","r","d"," ","s","k","i","n","s">>

(***************************************************************************)
(* Properties of the detectors (specification Spec)                        *)
(***************************************************************************)
\* C1: in the result of a detector (AnimalDetector.detect or
\* ExcelParser._detect_animals) no label is a case-insensitive substring of
\* a different label of the same result.
C1_Containment ==
  DetectorReturned =>
    \A i, j \in 1..Len(result_list) :
      i # j => ~InsideIgnoringCase(result_list[i], result_list[j])

\* C2: the result of a detector holds no two labels that are equal when
\* compared case-insensitively, also when several raw candidates have the
\* same canonical label.
C2_NoDuplicateLabels ==
  DetectorReturned =>
    \A i, j \in 1..Len(result_list) :
      i # j => Lower(result_list[i]) # Lower(result_list[j])

\* C2 witness: detect has kept two different raw candidates with the same
\* canonical label, and that label is in the result once.
C2_Witness ==
  /\ pc = "detect"
  /\ \E a, b \in unique_items :
       /\ a # b
       /\ Canonical(a) = Canonical(b)
       /\ Cardinality({i \in 1..Len(result_list) : result_list[i] = Canonical(a)}) = 1

\* C3: when the only animal mention of the narrative is an animal term with
\* a product term right after it, detect returns a composite label of that
\* animal and a product, and not the bare canonical label of the animal.
C3_CompositeSuppressesBare ==
  (pc = "detect" /\ description.kind = "str") =>
    \A m \in AnimalMentions(Narrative) :
      (/\ AnimalMentions(Narrative) = {m}
       /\ m[2] \in Elems(ANIMALS)
       /\ ProductsRightAfter(Narrative, m) # {})
      => /\ \E p \in ProductsRightAfter(Narrative, m) :
              Title(Composite(m[2], p)) \in Labels
         /\ Canonical(m[2]) \notin Labels

\* C4: for a narrative with 'elephant tusks' and the word 'ivory', the result
\* of detect has the label 'Elephant Tusks' and not the bare label 'Ivory'.
C4_NoBareIvory ==
  (/\ pc = "detect"
   /\ description.kind = "str"
   /\ Contains(Narrative, Lower(ElephantTusks))
   /\ WordOccurs(Lower(Ivory), Narrative))
  => (ElephantTusks \in Labels /\ Ivory \notin Labels)

\* C5: for a narrative that mentions one animal, elephant or tusker, and
\* mentions tusks or carcass without a composite match, the result of detect
\* is the single label 'Asian Elephant'.
C5_OnlyAsianElephant ==
  (/\ pc = "detect"
   /\ description.kind = "str"
   /\ Cardinality(AnimalMentions(Narrative)) = 1
   /\ \E m \in AnimalMentions(Narrative) :
        m[2] \in {<<"e","l","e","p","h","a","n","t">>, <<"t","u","s","k","e","r">>}
   /\ \/ Contains(Narrative, <<"t","u","s","k","s">>)
      \/ Contains(Narrative, <<"c","a","r","c","a","s","s">>)
   /\ CompositeFindAll(ANIMALS, ANIMALS_BY_CHAR, PRODUCTS, PRODUCTS_BY_CHAR,
                       text_to_scan, 1) = {})
  => result_list = <<AsianElephant>>

\* C6: when the scan text has 'leopard skins', an animal term with the
\* plural product term right after it, the composite candidate is the span
\* 'leopard skins' and the label is 'Leopard Skins'.
C6_SurfaceForm ==
  (pc = "detect" /\ WordOccurs(LeopardSkinsRaw, text_to_scan))
  => (LeopardSkinsRaw \in raw_candidates /\ Title(LeopardSkinsRaw) \in Labels)

\* C7: a detector never raises; for None and for the empty string it returns
\* None; for a narrative without any lexicon term it returns no label, as
\* the empty string or None.
C7_NeverRaises ==
  DetectorReturned =>
    /\ result.kind # "raised"
    /\ (description = PyNone \/ description = PyStr(<< >>)) => result = PyNone
    /\ (description.kind = "str" /\ NoLexiconTerm(Narrative))
         => (result_list = << >> /\ result \in {PyNone, PyStr(<< >>)})

\* C7 witness: detect has returned the empty string for a non-empty
\* narrative in which no lexicon term occurs.
C7_Witness ==
  /\ pc = "detect"
  /\ description.kind = "str"
  /\ description.str # << >>
  /\ NoLexiconTerm(Narrative)
  /\ result = PyStr(<< >>)

(***************************************************************************)
(* Properties of the filter functions (specification SpecFilter)           *)
(***************************************************************************)
ExtractReturned == filter_pc = "extract_species_from_compound_name"

\* the known species of one word
OneWordSpecies == {s \in KNOWN_SPECIES : \A i \in 1..Len(s) : s[i] # " "}

\* the product indicators that phrase ends with, after a space
EndingIndicators(phrase) ==
  {k \in 1..Len(PRODUCT_INDICATORS) :
     EndsWith(phrase, <<" ">> \o PRODUCT_INDICATORS[k])}

\* phrase without its ending indicator k and the space before it
PartBefore(phrase, k) ==
  SubSeq(phrase, 1, Len(phrase) - Len(PRODUCT_INDICATORS[k]) - 1)

\* no product indicator occurs in phrase with a space before or after it
NoIndicator(phrase) ==
  \A k \in 1..Len(PRODUCT_INDICATORS) :
    /\ ~Contains(phrase, <<" ">> \o PRODUCT_INDICATORS[k])
    /\ ~Contains(phrase, PRODUCT_INDICATORS[k] \o <<" ">>)

C9_WhitelistOnly ==
  ExtractReturned =>
    LET phrase == Lower(compound_name)
    IN /\ extracted_species # compound_name
            => Lower(extracted_species) \in KNOWN_SPECIES
       /\ \A k \in EndingIndicators(phrase) :
            PartBefore(phrase, k) \notin KNOWN_SPECIES
              => extracted_species = compound_name

\* a word that ends with a product indicator
EndsWithIndicator(w) ==
  \E k \in 1..Len(PRODUCT_INDICATORS) : EndsWith(w, PRODUCT_INDICATORS[k])

\* C9 as amended: for a phrase '<word> <product indicator>' whose word is
\* not a known species and does not end with a product indicator, the
\* function returns the word title-cased when it has more than two
\* characters and is not animal, wildlife or creature, and the input
\* unchanged otherwise.
C9_FirstWordFallback ==
  ExtractReturned =>
    LET phrase == Lower(compound_name)
    IN \A k \in EndingIndicators(phrase) :
         LET w == PartBefore(phrase, k)
         IN (/\ w # << >>
             /\ \A i \in 1..Len(w) : ~IsSpace(w[i])
             /\ w \notin KNOWN_SPECIES
             /\ ~EndsWithIndicator(w))
            => extracted_species =
                 IF Len(w) > 2 /\ w \notin {<<"a","n","i","m","a","l">>,
                                            <<"w","i","l","d","l","i","f","e">>,
                                            <<"c","r","e","a","t","u","r","e">>}
                   THEN Title(w) ELSE compound_name

\* C9 witness: 'car horn' has given 'Car'.
C9_Witness ==
  /\ ExtractReturned
  /\ compound_name = <<"c","a","r"," ","h","o","r","n">>
  /\ extracted_species = <<"C","a","r">>

\* the singular of a title-cased plural whose singular is a known species
Singular(name) ==
  IF EndsWith(name, <<"s">>) /\ SubSeq(Lower(name), 1, Len(name) - 1) \in KNOWN_SPECIES
    THEN SubSeq(name, 1, Len(name) - 1)
    ELSE name

\* what C10 says one entry yields
YieldOf(entry) ==
  LET e == Lower(entry)
      compounds == {k \in EndingIndicators(e) : PartBefore(e, k) \in KNOWN_SPECIES}
  IN IF e \in Elems(GENERIC_TERMS) THEN {}
     ELSE IF compounds # {} THEN {Singular(Title(PartBefore(e, k))) : k \in compounds}
     ELSE IF e \in KNOWN_SPECIES THEN {Singular(Title(e))}
     ELSE {}

\* C10: filter_species_from_products and clean_extracted_animals, for an
\* entry in any letter case, give the title-cased species of a
\* '<known species> <product>' compound, the title-cased name of a bare known
\* species, the singular of a plural, and nothing for a generic term or an
\* entry that is not a known species.
C10_FilterYield ==
  /\ (filter_pc = "filter_species_from_products" /\ Len(animals) = 1)
       => Elems(species_only) = YieldOf(animals[1])
  /\ (filter_pc = "clean_extracted_animals" /\ Len(animals) = 1)
       => Elems(cleaned) = YieldOf(animals[1])

\* entry is a bare species name: a known species, or the plural of one
IsBareSpecies(entry) == Singular(Title(entry)) # Title(entry) \/ Lower(entry) \in KNOWN_SPECIES

\* entry is a compound of a known species and a product indicator
IsCompound(entry) ==
  \E k \in EndingIndicators(Lower(entry)) : PartBefore(Lower(entry), k) \in KNOWN_SPECIES

\* C11: for a list that mixes bare species names with species+product
\* compounds, filter_species_from_products returns exactly the title-cased
\* species that appeared bare.
C11_BareSpeciesOnly ==
  (/\ filter_pc = "filter_species_from_products"
   /\ \E i \in 1..Len(animals) : IsBareSpecies(animals[i])
   /\ \E i \in 1..Len(animals) : IsCompound(animals[i])
   /\ \A i \in 1..Len(animals) : IsBareSpecies(animals[i]) \/ IsCompound(animals[i]))
  => Elems(species_only) =
       {Singular(Title(animals[i])) : i \in {k \in 1..Len(animals) : IsBareSpecies(animals[k])}}

\* the species words and the product words of the phrases of
\* test_is_wildlife_product
TestedSpeciesWords ==
  {<<"l","e","o","p","a","r","d">>, <<"t","i","g","e","r">>,
   <<"e","l","e","p","h","a","n","t">>, <<"p","a","n","g","o","l","i","n">>,
   <<"r","h","i","n","o">>, <<"s","n","a","k","e">>, <<"b","e","a","r">>,
   <<"t","u","r","t","l","e">>}

TestedProductWords ==
  {<<"s","k","i","n">>, <<"t","u","s","k","s">>, <<"s","c","a","l","e","s">>,
   <<"h","o","r","n">>, <<"b","i","l","e">>, <<"s","h","e","l","l">>}

\* C12: is_wildlife_product returns True for every phrase made of a species
\* word followed by a product word, and False for every bare species name.
C12_ProductPhrases ==
  filter_pc = "is_wildlife_product" =>
    /\ (\E sp \in TestedSpeciesWords, pr \in TestedProductWords :
          product_text = sp \o <<" ">> \o pr) => is_product
    /\ product_text \in TestedSpeciesWords => ~is_product

(***************************************************************************)
(* Properties of the normalizers (specification SpecNormalize)             *)
(***************************************************************************)
LocationReturned == normalize_pc = "normalize_location_name"

Rourkela == <<"R","o","u","r","k","e","l","a">>
Sundargarh == <<"S","u","n","d","a","r","g","a","r","h">>
RandomCity == <<"R","a","n","d","o","m"," ","C","i","t","y">>
PuriRourkela == <<"P","u","r","i"," ","R","o","u","r","k","e","l","a">>
Puri == <<"P","u","r","i">>

C14_CanonicalIdempotent ==
  /\ normalize_pc = "canonical" => Canonical(normalized) = normalized
  /\ normalize_pc = "normalize_animal_name" => NormalizedAnimal(normalized) = normalized

\* C14 witness: the mapping step has given, for a key of the normalization
\* map, a label other than the title-cased key.
C14_Witness ==
  /\ normalize_pc = "canonical"
  /\ raw_name \in Keys(NORMALIZATION_MAP)
  /\ normalized # Title(raw_name)
  /\ Canonical(normalized) = normalized


(***************************************************************************)
(* C15                                                                     *)
(***************************************************************************)
\* what detect returns when sorted_candidates is the list sorted
ReturnedOver(sorted) ==
  PyStr(Join(CommaSpace, ResultList(FinalOutput(UniqueItems(sorted, {})))))

\* C15: detect is a function of the narrative alone: whatever order the set
\* of candidates was iterated in, and so whatever order candidates of equal
\* length were sorted and walked in, the call returns the value that every
\* other order gives for that narrative.
C15_OrderIndependent ==
  (pc = "detect" /\ ~Falsy(description)) =>
    \A sorted \in SortedCandidates(VerifiedCandidates(raw_candidates, text_to_scan)) :
      ReturnedOver(sorted) = result

\* two kept candidates of equal length were walked in the order opposite to
\* the alphabetical one
C15_Witness ==
  /\ pc = "detect"
  /\ \E i, j \in 1..Len(sorted_candidates) :
       /\ i < j
       /\ Len(sorted_candidates[i]) = Len(sorted_candidates[j])
       /\ StrLess(sorted_candidates[j], sorted_candidates[i])
       /\ {sorted_candidates[i], sorted_candidates[j]} \subseteq unique_items

(***************************************************************************)
(* C16                                                                     *)
(***************************************************************************)
\* the values a call of detect on its own can return for the narrative
DetectAlone(narrative) ==
  IF Falsy(narrative) THEN {PyNone}
  ELSE IF NoStrMethods(narrative) THEN {PyRaised}
  ELSE LET text == TextToScan(narrative.str)
       IN {ReturnedOver(sorted) :
             sorted \in SortedCandidates(VerifiedCandidates(RawCandidates(text), text))}

\* C16: under every interleaving of the steps of the concurrent calls, a
\* call that has returned has returned what it returns when run alone, and
\* the lexicon lists and the normalization map of the shared detector are
\* as __init__ left them.
C16_CallsIsolated ==
  \A c \in DOMAIN calls :
    /\ lexicon = Lexicon
    /\ calls[c].pc = "returned" => calls[c].result \in DetectAlone(narratives[c])

\* a call has returned its labels while a call on another narrative was
\* between two of its steps
C16_Witness ==
  \E c, d \in DOMAIN calls :
    /\ narratives[c] # narratives[d]
    /\ calls[c].pc = "returned"
    /\ calls[c].result \notin {PyNone, PyRaised, PyStr(<< >>)}
    /\ calls[d].pc \in {"collected", "verified", "sorted", "walked"}

(***************************************************************************)
(* C17                                                                     *)
(***************************************************************************)
\* detect has run to its end on a narrative
DetectScanned == pc = "detect" /\ ~Falsy(description) /\ ~NoStrMethods(description)

\* the sentences detect splits the narrative into, and the qualifying ones
Sentences == SplitSentences(Strip(ReplaceNewlines(description.str)))
Qualifying == RelevantTextParts(Sentences)

\* term occurs in one of the sentences, whatever the case of the letters
OccursInOneOf(term, sentences) ==
  \E i \in 1..Len(sentences) : Contains(Lower(sentences[i]), term)

\* the kept candidates that come from the animal term: the term itself and
\* its composites
KeptFrom(term) ==
  {c \in unique_items :
     c = term \/ \E k \in 1..Len(PRODUCTS) : c = Composite(term, PRODUCTS[k])}

\* C17: when a sentence qualifies, the scan text is the qualifying sentences
\* joined in their order, and an animal or bird term that occurs in the
\* narrative, but in none of the qualifying sentences, gives no kept
\* candidate and so no label.
C17_ContextGating ==
  (DetectScanned /\ Qualifying # << >>) =>
    /\ text_to_scan = Lower(Join(<<" ">>, Qualifying))
    /\ \A i \in 1..Len(ANIMALS_BIRDS) :
         (/\ OccursInOneOf(ANIMALS_BIRDS[i], Sentences)
          /\ ~OccursInOneOf(ANIMALS_BIRDS[i], Qualifying))
           => KeptFrom(ANIMALS_BIRDS[i]) = {}

(***************************************************************************)
(* C18                                                                     *)
(***************************************************************************)
\* the kept candidates that hold the term
KeptAround(term) == {c \in unique_items : Contains(c, term)}

\* C18: when no sentence qualifies, the scan text is the whole narrative in
\* lower case, and every animal or bird term between word boundaries in it
\* is inside a kept candidate whose canonical label is in the result.
C18_ContextFallback ==
  (DetectScanned /\ Qualifying = << >>) =>
    /\ text_to_scan = Narrative
    /\ \A m \in AnimalMentions(Narrative) :
         \E c \in KeptAround(m[2]) : Canonical(c) \in Labels

\* a narrative of two sentences, none of them qualifying, with a term that
\* is kept and a term that a longer kept candidate holds
C18_Witness ==
  /\ DetectScanned
  /\ Qualifying = << >>
  /\ Len(Sentences) > 1
  /\ \E m, n \in AnimalMentions(Narrative) :
       /\ m[2] \in unique_items
       /\ n[2] \notin unique_items
       /\ Len(result_list) > 1

(***************************************************************************)
(* C19                                                                     *)
(***************************************************************************)
\* the candidates that are substrings of the scan text
Literal == {c \in raw_candidates : Contains(text_to_scan, c)}

\* C19: every label detect returns is the canonical form of a candidate that
\* is a substring of the scan text, and a candidate that is not a substring
\* of the scan text is not among the candidates the deduplication walks.
C19_VerificationFilter ==
  DetectScanned =>
    /\ \A label \in Labels : \E c \in Literal : Canonical(c) = label
    /\ \A c \in raw_candidates \ Literal : c \notin Elems(sorted_candidates)

\* the composite pass has made a candidate out of a match with a word between
\* animal and product, and the call has returned labels
C19_Witness ==
  /\ DetectScanned
  /\ Labels # {}
  /\ \E c \in raw_candidates \ Literal :
       \E m \in AnimalMentions(text_to_scan) : OccursAt(m[2] \o <<" ">>, c, 1)

(***************************************************************************)
(* C20                                                                     *)
(***************************************************************************)
\* the word tokens of text[first..(last - 1)]: the indexes where a run of
\* word characters starts
TokensBetween(text, first, last) ==
  {k \in first..(last - 1) :
     IsWordChar(text[k]) /\ (k = first \/ ~IsWordChar(text[k - 1]))}

\* text[first..(last - 1)] is whitespace, word tokens and whitespace again
OnlyWordsBetween(text, first, last) ==
  /\ first < last
  /\ IsSpace(text[first])
  /\ IsSpace(text[last - 1])
  /\ \A k \in first..(last - 1) : IsSpace(text[k]) \/ IsWordChar(text[k])

\* the indexes after index first where a product term starts
ProductStarts(product_terms, pByChar, text, first) ==
  {q \in (first + 1)..Len(text) : TermsAt(product_terms, pByChar, text, q) # {}}

\* the animal terms that are whole words at index i
WholeAnimalsAt(animal_terms, aByChar, text, i) ==
  {animal_terms[t] : t \in {u \in TermsAt(animal_terms, aByChar, text, i) :
                         /\ WordBoundary(text, i)
                         /\ WordBoundary(text, i + Len(animal_terms[u]))}}

\* the composite pass on text does what the window says for the animal term
\* a at index i
WindowAt(animal_terms, aByChar, product_terms, pByChar, text, i, a) ==
  LET after == i + Len(a)
      begins == ProductStarts(product_terms, pByChar, text, after)
      match == CompositeMatchAt(animal_terms, aByChar, product_terms, pByChar, text, i)
  IN /\ \A q \in begins :
          (/\ OnlyWordsBetween(text, after, q)
           /\ Cardinality(TokensBetween(text, after, q)) <= MaxFiller)
            => \E t \in TermsAt(product_terms, pByChar, text, q) :
                 <<a, product_terms[t]>> \in
                   CompositeFindAll(animal_terms, aByChar, product_terms, pByChar, text, 1)
     /\ (/\ begins # {}
         /\ \/ Cardinality(TokensBetween(text, after, Min(begins))) > MaxFiller
            \/ \E k \in after..(Min(begins) - 1) :
                 ~IsSpace(text[k]) /\ ~IsWordChar(text[k]))
          => ~(match.ok /\ match.animal = a)

\* the same for every animal term that is a whole word of text
Window(animal_terms, aByChar, product_terms, pByChar, text) ==
  \A i \in 1..Len(text) :
    \A a \in WholeAnimalsAt(animal_terms, aByChar, text, i) :
      WindowAt(animal_terms, aByChar, product_terms, pByChar, text, i, a)

\* C20: in both detectors the composite pass yields '{animal} {product}' for
\* every animal term followed by at most three word tokens, whitespace and a
\* product term (for one of the product terms that start there), and has no
\* match at an animal term that four or more
\* tokens, or a punctuation mark, separate from the next product term.
C20_CompositeWindow ==
  /\ DetectScanned =>
       Window(ANIMALS, ANIMALS_BY_CHAR, PRODUCTS, PRODUCTS_BY_CHAR, text_to_scan)
  /\ (pc = "_detect_animals" /\ ~Falsy(description) /\ ~NoStrMethods(description)) =>
       Window(XL_ANIMALS, XL_ANIMALS_BY_CHAR, XL_PRODUCTS, XL_PRODUCTS_BY_CHAR,
              Narrative)

(***************************************************************************)
(* C21                                                                     *)
(***************************************************************************)
\* _detect_animals has run to its end on a narrative
XlScanned ==
  pc = "_detect_animals" /\ ~Falsy(description) /\ ~NoStrMethods(description)

\* term is in text, and nowhere in it between word boundaries
OnlyInsideWords(term, text) == Contains(text, term) /\ ~WordOccurs(term, text)

\* the found items of _detect_animals that come from the animal term: its
\* composites, and its label when no term between word boundaries gives it
XlFoundFrom(term) ==
  {f \in found_items :
     \/ \E k \in 1..Len(XL_PRODUCTS) : f = Composite(term, XL_PRODUCTS[k])
     \/ /\ f = MapGetOr(XL_NORMALIZATION_MAP, term, Capitalize(term))
        /\ f \notin {XL_PRODUCTS[k] : k \in 1..Len(XL_PRODUCTS)}
        /\ \A m \in 1..Len(XL_ANIMALS_BIRDS) :
             WordOccurs(XL_ANIMALS_BIRDS[m], Narrative) =>
               MapGetOr(XL_NORMALIZATION_MAP, XL_ANIMALS_BIRDS[m],
                        Capitalize(XL_ANIMALS_BIRDS[m])) # f}

\* C21: in both detectors an animal or bird term that is in the scan text
\* only as a part of longer words gives no label, neither alone nor as the
\* animal of a composite.
C21_WordBoundary ==
  /\ DetectScanned =>
       \A i \in 1..Len(ANIMALS_BIRDS) :
         OnlyInsideWords(ANIMALS_BIRDS[i], text_to_scan)
           => KeptFrom(ANIMALS_BIRDS[i]) = {}
  /\ XlScanned =>
       \A i \in 1..Len(XL_ANIMALS_BIRDS) :
         OnlyInsideWords(XL_ANIMALS_BIRDS[i], Narrative)
           => XlFoundFrom(XL_ANIMALS_BIRDS[i]) = {}

(***************************************************************************)
(* C22                                                                     *)
(***************************************************************************)
\* the verified candidates of the call
VerifiedOfCall == Elems(sorted_candidates)

\* the verified candidates that are inside no other verified candidate
Maximal == {c \in VerifiedOfCall : \A d \in VerifiedOfCall \ {c} : ~Contains(d, c)}

\* C22: the walk over the candidates, longest first, keeps exactly the
\* verified candidates that are a proper substring of no other verified
\* candidate, so no kept candidate is inside another kept candidate.
C22_MaximalCandidates ==
  DetectScanned =>
    /\ unique_items = Maximal
    /\ \A c, d \in unique_items : c # d => ~Contains(d, c)

\* the walk has kept two candidates and dropped two, one of them inside a
\* candidate that was dropped itself
C22_Witness ==
  /\ DetectScanned
  /\ Cardinality(unique_items) >= 2
  /\ \E c, d \in VerifiedOfCall \ unique_items : c # d /\ Contains(d, c)

(***************************************************************************)
(* C23                                                                     *)
(***************************************************************************)
\* the labels of S, other than 'Animal Skin', with 'Skin' in them
SpecificSkins(S) == {label \in S \ {AnimalSkin} : Contains(label, SkinWord)}

\* C23: 'Animal Skin' is in a result of detect only when no other label of
\* the result has 'Skin' in it, and an 'Animal Skin' that the mapping gave
\* stays when no other mapped label has 'Skin' in it.
C23_GenericSkin ==
  DetectScanned =>
    /\ AnimalSkin \in Labels => SpecificSkins(Labels) = {}
    /\ (AnimalSkin \in FinalOutput(unique_items)
          /\ SpecificSkins(FinalOutput(unique_items)) = {})
         => AnimalSkin \in Labels

\* the mapping gave 'Animal Skin' and a specific skin label, and the result
\* holds the specific one only
C23_Witness ==
  /\ DetectScanned
  /\ AnimalSkin \in FinalOutput(unique_items)
  /\ AnimalSkin \notin Labels
  /\ SpecificSkins(Labels) # {}

(***************************************************************************)
(* C24                                                                     *)
(***************************************************************************)
\* the strings of list are in ascending order
Ascending(list) ==
  \A i \in 1..(Len(list) - 1) : ~StrLess(list[i + 1], list[i])

\* C24: the labels a detector returns are in ascending order, and the
\* returned string is these labels joined, also when detect has removed
\* 'Animal Skin' from them.
C24_SortedLabels ==
  (DetectScanned \/ (XlScanned /\ found_items # {})) =>
    /\ Ascending(result_list)
    /\ result = PyStr(Join(CommaSpace, result_list))

\* detect has removed 'Animal Skin' and returns two labels or more
C24_Witness ==
  /\ DetectScanned
  /\ AnimalSkin \in FinalOutput(unique_items)
  /\ AnimalSkin \notin Labels
  /\ Len(result_list) >= 2

(***************************************************************************)
(* C25                                                                     *)
(***************************************************************************)
\* the candidates the composite pass of detect adds
Composites ==
  {Composite(m[1], m[2]) :
     m \in CompositeFindAll(ANIMALS, ANIMALS_BY_CHAR, PRODUCTS, PRODUCTS_BY_CHAR,
                            text_to_scan, 1)}

\* C25: every candidate the composite pass of detect adds has its label in
\* the result, or is inside a longer kept candidate.
C25_CompositeRepresented ==
  DetectScanned =>
    \A c \in Composites :
      \/ Canonical(c) \in Labels
      \/ \E kept \in unique_items : Len(kept) > Len(c) /\ Contains(kept, c)

(***************************************************************************)
(* C26                                                                     *)
(***************************************************************************)
\* the labels _detect_animals returns for the narrative of the call
XlLabelsOfNarrative ==
  Elems(XlSortedLabels(XlFinalItems(XlFoundItems(Narrative))))

\* the labels detect returns for the narrative of the call, walking the
\* candidates in the order sorted
DetectLabelsOver(sorted) == Elems(ResultList(FinalOutput(UniqueItems(sorted, {}))))

\* C26: for every narrative the labels AnimalDetector.detect returns are the
\* labels ExcelParser._detect_animals returns.
C26_DetectorsAgree ==
  /\ DetectScanned => Labels = XlLabelsOfNarrative
  /\ XlScanned =>
       \A sorted \in SortedCandidates(
                       VerifiedCandidates(RawCandidates(TextToScan(description.str)),
                                          TextToScan(description.str))) :
         Labels = DetectLabelsOver(sorted)

(***************************************************************************)
(* C27                                                                     *)
(***************************************************************************)
\* C27: the list clean_extracted_animals returns holds no name twice.
C27_CleanedNoDuplicates ==
  filter_pc = "clean_extracted_animals" =>
    \A i, j \in 1..Len(cleaned) : i # j => cleaned[i] # cleaned[j]

(***************************************************************************)
(* C28                                                                     *)
(***************************************************************************)
Districts == Elems(ODISHA_DISTRICTS)

\* one of the four rules of normalize_location_name matches name_lower
RuleMatches(name_lower) ==
  \/ MapHas(LOCATION_MAPPING, name_lower)
  \/ DistrictsEqual(name_lower) # {}
  \/ DistrictsIn(name_lower) # {}
  \/ AliasesIn(name_lower) # {}

C29_LocationIdempotent ==
  /\ LocationReturned => NormalizedLocation(normalized) = normalized
  /\ (LocationReturned /\ raw_name \in Districts) => normalized = raw_name

\* a name with spaces around it that no rule matches has been title-cased
C29_Witness ==
  /\ LocationReturned
  /\ ~RuleMatches(Strip(Lower(raw_name)))
  /\ Strip(raw_name) # raw_name
  /\ normalized # raw_name

(***************************************************************************)
(* C30                                                                     *)
(***************************************************************************)
\* list holds no string twice
NoDuplicates(list) == \A i, j \in 1..Len(list) : i # j => list[i] # list[j]

\* C30: once a run of normalize_incidents is complete, no stored incident
\* has a name twice in extracted_animals, and a later run calls update_one
\* for no incident.
C30_BatchIdempotent ==
  runs >= 1 =>
    /\ \A k \in 1..Len(collection) : NoDuplicates(collection[k].extracted_animals)
    /\ updated_count = 0 \/ (run_pc = "idle" /\ runs = 1)

\* the second run is complete over two stored incidents, one of them with
\* two names in its list, and has called update_one for neither
C30_Witness ==
  /\ runs = 2
  /\ run_pc = "idle"
  /\ updated_count = 0
  /\ Len(collection) = 2
  /\ \E k \in 1..2 : Len(collection[k].extracted_animals) = 2

====
